---- MODULE Spec2Model ----
(***************************************************************************)
(* The authentication, session and rate-limiting runtime of the generated  *)
(* auth-service samples (tests/intent-hypothesis/generated/text and        *)
(* .../glyph, 05-auth-service.py), and the webhook processor, the chat     *)
(* server and the queue worker of the samples 02, 03 and 04.               *)
(*                                                                         *)
(* Spec         the "text" service; every route handler is an `async def`  *)
(*              without a suspension point, so its body is one step of the *)
(*              event loop.                                                *)
(* SpecGlyph    the "glyph" service, same scheduling.                      *)
(* SpecThreads  the "text" handlers refresh and logout executed statement  *)
(*              by statement by parallel threads.                          *)
(* SpecGlyphStore  the "glyph" routes that read the session store, against *)
(*              a store filled through SessionCollection.Create.           *)
(* SpecSweepThreads  SpecThreads with the clock advancing and the sweep    *)
(*              executed statement by statement as well.                   *)
(* SpecLimited  register and login of the "text" service when the buckets  *)
(*              of their limiters are full or nearly full.                 *)
(* SpecGuard    get_current_user and require_admin applied to any bearer   *)
(*              string, against a store that holds users of both roles.    *)
(* SpecRate     the sliding-window limiter called with a small limit.      *)
(* SpecRateThreads  the limiter executed statement by statement by         *)
(*              parallel threads.                                          *)
(* SpecWebhook  the "text" webhook processor when the bucket of a key is   *)
(*              full or nearly full; SpecWebhookGlyph its "glyph" twin.    *)
(* SpecChat     the chat handlers of several websockets as coroutines of   *)
(*              one event loop, suspended at every await on a websocket.   *)
(* SpecQueue    enqueue and process calls on the queue worker.             *)
(***************************************************************************)
EXTENDS Integers, Sequences, FiniteSets, TLC

\* ------------------------------------------------------------- bounds
MaxReqs == 4
MaxTicks == 2
NThreads == 2
MaxChecks == 5
MaxLimit == 3

\* ---------------------------------------------------- program constants
ACCESS_TOKEN_EXPIRE == 3600
REFRESH_TOKEN_EXPIRE == 604800
RATE_LIMIT_WINDOW == 60
SECRET_KEY == "secret"
REGISTER_LIMIT == 10
LOGIN_LIMIT == 20
ADMIN_USERS_LIMIT == 50
JWT_SECRET == "secret"
JWT_EXPIRY_SECONDS == 604800

\* ------------------------------------------------------------- inputs
Emails == {"a@x.com", "b@x.com"}
Passwords == {"pw1", "wrong"}      \* what login is tried with
Registered == {"pw1"}              \* what register is called with
Names == {"Ann"}
Hosts == {"h1"}
TickSteps == {1, ACCESS_TOKEN_EXPIRE, REFRESH_TOKEN_EXPIRE}

VARIABLES
    now,                \* time.time(), in seconds
    ticks,              \* how often the clock has advanced
    uuidCount,          \* how many uuid4 values have been drawn
    users,              \* Database._users: user id -> User
    sessions,           \* Database._sessions: refresh token -> session
    rate_limit_store,   \* key -> list of timestamps
    issued,             \* history: refresh token -> the pair handed to a client
    ended,              \* history: refresh token -> how its session was removed
    resp,               \* the response to the latest request
    nreq,               \* how many requests have been served
    th,                 \* SpecThreads, SpecRateThreads: each thread's frame
    list_id,            \* SpecRateThreads: key -> identity of its list object
    limit,              \* SpecRate, SpecRateThreads: max_requests of the calls
    log,                \* SpecRate, SpecRateThreads: history, key -> checks made
    webhook_logs,       \* webhook processor: the list of logged events
    payments,           \* webhook processor: payment id -> record
    customers,          \* webhook processor: customer id -> record
    connections,        \* chat server: ConnectionManager._connections
    ws,                 \* chat server: each websocket's chat handler frame
    sent,               \* chat server: history, broadcast -> what it delivered
    queues,             \* job queue: QueueWorker._queues, name -> messages
    proc,               \* job queue: each process call's frame
    enqueued,           \* job queue: history, name -> messages in put order
    handled             \* job queue: history, the handler invocations in order

vars == <<now, ticks, uuidCount, users, sessions, rate_limit_store,
          issued, ended, resp, nreq, th, list_id, limit, log,
          webhook_logs, payments, customers, connections, ws, sent,
          queues, proc, enqueued, handled>>
\* The state of the webhook processor, of the chat server and of the queue
\* worker, which are programs of their own.
Webhook == <<webhook_logs, payments, customers>>
Chat == <<connections, ws, sent>>
Queue == <<queues, proc, enqueued, handled>>
\* What the routes of the auth services do not touch.
NotAuth == <<th, list_id, limit, log, Webhook, Chat, Queue>>
\* What belongs to the auth services alone, and what the chat server and
\* the queue worker have no use for.
Auth == <<users, sessions, issued, ended, th, list_id, limit, log>>
Service == <<now, ticks, uuidCount, rate_limit_store, resp, nreq, Auth>>

\* ------------------------------------------------------------- values
NoId == 0
NoToken == [wellformed |-> FALSE, key |-> "", sub |-> NoId, email |-> "",
            role |-> "", exp |-> 0]
MalformedToken == [wellformed |-> FALSE, key |-> "x", sub |-> NoId, email |-> "",
                   role |-> "", exp |-> 0]
NoResp == [op |-> "none", status |-> 0, detail |-> "", token |-> NoToken,
           refresh_token |-> NoId, expires_in |-> 0, user |-> NoId,
           arg |-> NoId, cred |-> "none", removed |-> {}, at |-> 0]
\* (removed: the keys a sweep returned; at: the instant the sweep ran.)

Put(f, k, v) == [x \in DOMAIN f \cup {k} |-> IF x = k THEN v ELSE f[x]]
Drop(f, ks) == [x \in DOMAIN f \ ks |-> f[x]]
Empty == [x \in {} |-> 0]

\* uuid.uuid4(): the value drawn after `count` earlier draws; no two draws
\* of a process give the same value.
uuid4_Reuse(count) == IF count >= 3 THEN 2 ELSE count + 1
uuid4(count) == count + 1
generate_id(count) == uuid4(count)

\* ------------------------------------------------------------ hashing
\* passlib bcrypt: the digest is salted and only verifies its own password.
bcrypt_hash(password) == [alg |-> "bcrypt", of |-> password]
bcrypt_verify_Any(password, digest) == digest.alg = "bcrypt"
bcrypt_verify(password, digest) == digest.alg = "bcrypt" /\ digest.of = password

\* ------------------------------------------------------------- tokens
\* jose jwt.encode / jwt.decode (HS256): a token carries its payload and is
\* bound to the key that signed it; decode rejects a token that is not
\* well-formed, not signed with the key, or past its exp (exp < now).
jwt_encode(payload, key) ==
    [wellformed |-> TRUE, key |-> key, sub |-> payload.sub,
     email |-> payload.email, role |-> payload.role, exp |-> payload.exp]
jwt_decode_ok_NoExp(token, key, t) == token.wellformed /\ token.key = key
jwt_decode_ok(token, key, t) ==
    token.wellformed /\ token.key = key /\ ~(token.exp < t)

\* ----------------------------------------------------------- Database
find_user_by_email_None(us, email) == NoId
find_user_by_email(us, email) ==
    LET hits == {id \in DOMAIN us : us[id].email = email}
    IN  IF hits = {} THEN NoId
        ELSE CHOOSE id \in hits : \A o \in hits : id <= o

create_user_FirstAdmin(us, id, email, name, password_hash, t) ==
    Put(us, id, [id |-> id, email |-> email, name |-> name,
                 password_hash |-> password_hash,
                 role |-> IF us = Empty THEN "admin" ELSE "user",
                 created_at |-> t, last_login |-> -1])
create_user(us, id, email, name, password_hash, t) ==
    Put(us, id, [id |-> id, email |-> email, name |-> name,
                 password_hash |-> password_hash, role |-> "user",
                 created_at |-> t, last_login |-> -1])

update_last_login(us, user_id, t) ==
    IF user_id \in DOMAIN us
    THEN [us EXCEPT ![user_id].last_login = t]
    ELSE us

create_session(ss, user_id, refresh_token, t) ==
    Put(ss, refresh_token, [user_id |-> user_id, created_at |-> t])

get_session(ss, refresh_token) ==
    IF refresh_token \in DOMAIN ss THEN {refresh_token} ELSE {}

delete_session_OfUser(ss, refresh_token) ==
    IF refresh_token \in DOMAIN ss
    THEN Drop(ss, {k \in DOMAIN ss : ss[k].user_id = ss[refresh_token].user_id})
    ELSE ss
delete_session_Keep(ss, refresh_token) == ss
delete_session(ss, refresh_token) ==
    IF refresh_token \in DOMAIN ss THEN Drop(ss, {refresh_token}) ELSE ss

delete_sessions_for_user_Everyone(ss, user_id) ==
    IF \E k \in DOMAIN ss : ss[k].user_id = user_id THEN Empty ELSE ss
delete_sessions_for_user_One(ss, user_id) ==
    LET to_delete == {k \in DOMAIN ss : ss[k].user_id = user_id}
    IN  IF to_delete = {} THEN ss
        ELSE Drop(ss, {CHOOSE k \in to_delete : \A o \in to_delete : k <= o})
delete_sessions_for_user(ss, user_id) ==
    Drop(ss, {k \in DOMAIN ss : ss[k].user_id = user_id})

expired_sessions_One(ss, t) ==
    LET old == {k \in DOMAIN ss : t - ss[k].created_at > REFRESH_TOKEN_EXPIRE}
    IN  IF old = {} THEN {} ELSE {CHOOSE k \in old : \A o \in old : k <= o}
expired_sessions_Inclusive(ss, t) ==
    {k \in DOMAIN ss : t - ss[k].created_at >= REFRESH_TOKEN_EXPIRE}
expired_sessions(ss, t) ==
    {k \in DOMAIN ss : t - ss[k].created_at > REFRESH_TOKEN_EXPIRE}
query_expired_sessions(ss, t) == Drop(ss, expired_sessions(ss, t))

\* ------------------------------------------------------ rate limiting
Prune_Inclusive(list, t, window) == SelectSeq(list, LAMBDA x : t - x <= window)
Prune(list, t, window) == SelectSeq(list, LAMBDA x : t - x < window)

\* rate_limit: the store after the call and whether the call returned
\* (TRUE) or raised 429 (FALSE).
rate_limit_AnyBucket(store, key, max_requests, window, t) ==
    LET had   == IF key \in DOMAIN store THEN store[key] ELSE <<>>
        kept  == Prune(had, t, window)
    IN  IF \E k \in DOMAIN store : Len(Prune(store[k], t, window)) >= max_requests
        THEN [ok |-> FALSE, store |-> Put(store, key, kept)]
        ELSE [ok |-> TRUE, store |-> Put(store, key, Append(kept, t))]
rate_limit_OffByOne(store, key, max_requests, window, t) ==
    LET had   == IF key \in DOMAIN store THEN store[key] ELSE <<>>
        kept  == Prune(had, t, window)
    IN  IF Len(kept) > max_requests
        THEN [ok |-> FALSE, store |-> Put(store, key, kept)]
        ELSE [ok |-> TRUE, store |-> Put(store, key, Append(kept, t))]
rate_limit_RecordDenied(store, key, max_requests, window, t) ==
    LET had   == IF key \in DOMAIN store THEN store[key] ELSE <<>>
        kept  == Prune(had, t, window)
    IN  [ok |-> Len(kept) < max_requests, store |-> Put(store, key, Append(kept, t))]
rate_limit(store, key, max_requests, window, t) ==
    LET had   == IF key \in DOMAIN store THEN store[key] ELSE <<>>
        kept  == Prune(had, t, window)
    IN  IF Len(kept) >= max_requests
        THEN [ok |-> FALSE, store |-> Put(store, key, kept)]
        ELSE [ok |-> TRUE, store |-> Put(store, key, Append(kept, t))]

\* ------------------------------------------------------ token helpers
\* sign_token: the access token, and the registry with the new session.
access_payload(user, t) ==
    [sub |-> user.id, email |-> user.email, role |-> user.role,
     exp |-> t + ACCESS_TOKEN_EXPIRE]
sign_token(ss, user, refresh_token, t) ==
    [access_token |-> jwt_encode(access_payload(user, t), SECRET_KEY),
     refresh_token |-> refresh_token,
     expires_in |-> ACCESS_TOKEN_EXPIRE,
     sessions |-> create_session(ss, user.id, refresh_token, t)]

\* -------------------------------------------------- auth dependencies
get_current_user(credentials, us, t) ==
    IF ~jwt_decode_ok(credentials, SECRET_KEY, t)
    THEN [status |-> 401, detail |-> "Invalid token", user |-> NoId]
    ELSE IF credentials.sub = NoId
    THEN [status |-> 401, detail |-> "Invalid token", user |-> NoId]
    ELSE IF credentials.sub \notin DOMAIN us
    THEN [status |-> 401, detail |-> "User not found", user |-> NoId]
    ELSE [status |-> 200, detail |-> "", user |-> credentials.sub]

require_admin_NoRole(credentials, us, t) == get_current_user(credentials, us, t)
require_admin(credentials, us, t) ==
    LET auth == get_current_user(credentials, us, t)
    IN  IF auth.status # 200 THEN auth
        ELSE IF us[auth.user].role # "admin"
        THEN [status |-> 403, detail |-> "Admin access required", user |-> NoId]
        ELSE auth

\* ------------------------------------------------------------ clients
\* What a client can send: an access token it was given or a string that
\* is no token; a refresh token it was given, any other uuid, or a string
\* that is no uuid of this process (NoId).
Credentials == {issued[r].token : r \in DOMAIN issued} \cup {MalformedToken}
RefreshInputs == 0 .. uuidCount
Key(limiter, subject) == <<limiter, subject>>

Reply(op, status, detail, arg) ==
    [NoResp EXCEPT !.op = op, !.status = status, !.detail = detail, !.arg = arg]
\* The kind of credential a request carried: a token this service issued,
\* or a string that is no token.
Kind(credentials) == IF credentials.wellformed THEN "issued" ELSE "malformed"
Authed(r, credentials) == [r EXCEPT !.cred = Kind(credentials)]
Pair(r, signed, user_id) ==
    [r EXCEPT !.token = signed.access_token,
              !.refresh_token = signed.refresh_token,
              !.expires_in = signed.expires_in, !.user = user_id]
Hand(signed, user_id, by) ==
    Put(issued, signed.refresh_token,
        [token |-> signed.access_token, user_id |-> user_id, by |-> by,
         at |-> now, expires_in |-> signed.expires_in])
\* (Hand: `at` is the instant the pair was returned and `expires_in` what the
\* response said.)
\* The refresh tokens whose session a request has ended, with the way it
\* ended ("rotated" by a successful refresh that presented the token,
\* "logout" by a logout of the user it was issued to, "sweep" by the sweep
\* that returned it).
End(tokens, how) ==
    [r \in DOMAIN ended \cup tokens |->
        (IF r \in DOMAIN ended THEN ended[r] ELSE {})
           \cup (IF r \in tokens THEN {how} ELSE {})]
IssuedTo(user_id) == {r \in DOMAIN issued : issued[r].user_id = user_id}

\* ------------------------------------------------------------- routes
Tick(d) ==
    /\ ticks < MaxTicks
    /\ now' = now + d
    /\ ticks' = ticks + 1
    /\ UNCHANGED <<uuidCount, users, sessions, rate_limit_store, issued,
                   ended, resp, nreq, th, list_id, log, limit, Webhook, Chat, Queue>>

register_LimitLast(email, name, password, host) ==
    LET rl == rate_limit(rate_limit_store, Key("register", host),
                         REGISTER_LIMIT, RATE_LIMIT_WINDOW, now)
        id == uuid4(uuidCount)
        us == create_user(users, id, email, name, bcrypt_hash(password), now)
        signed == sign_token(sessions, us[id], uuid4(uuidCount + 1), now)
    IN  /\ nreq < MaxReqs
        /\ nreq' = nreq + 1
        /\ UNCHANGED NotAuth
        /\ rate_limit_store' = rl.store
        /\ UNCHANGED <<now, ticks, ended>>
        /\ IF find_user_by_email(users, email) # NoId
           THEN /\ resp' = Reply("register", 409, "Email already registered", NoId)
                /\ UNCHANGED <<uuidCount, users, sessions, issued>>
           ELSE /\ uuidCount' = uuidCount + 2
                /\ users' = us
                /\ sessions' = signed.sessions
                /\ issued' = Hand(signed, id, "register")
                /\ resp' = IF rl.ok
                           THEN Pair(Reply("register", 201, "", NoId), signed, id)
                           ELSE Reply("register", 429, "Rate limit exceeded", NoId)
register(email, name, password, host) ==
    LET rl == rate_limit(rate_limit_store, Key("register", host),
                         REGISTER_LIMIT, RATE_LIMIT_WINDOW, now)
        id == uuid4(uuidCount)
        us == create_user(users, id, email, name, bcrypt_hash(password), now)
        signed == sign_token(sessions, us[id], uuid4(uuidCount + 1), now)
    IN  /\ nreq < MaxReqs
        /\ nreq' = nreq + 1
        /\ UNCHANGED NotAuth
        /\ rate_limit_store' = rl.store
        /\ UNCHANGED <<now, ticks, ended>>
        /\ IF ~rl.ok
           THEN /\ resp' = Reply("register", 429, "Rate limit exceeded", NoId)
                /\ UNCHANGED <<uuidCount, users, sessions, issued>>
           ELSE IF find_user_by_email(users, email) # NoId
           THEN /\ resp' = Reply("register", 409, "Email already registered", NoId)
                /\ UNCHANGED <<uuidCount, users, sessions, issued>>
           ELSE /\ uuidCount' = uuidCount + 2
                /\ users' = us
                /\ sessions' = signed.sessions
                /\ issued' = Hand(signed, id, "register")
                /\ resp' = Pair(Reply("register", 201, "", NoId), signed, id)

login_UpdateFirst(email, password, host) ==
    LET rl == rate_limit(rate_limit_store, Key("login", host),
                         LOGIN_LIMIT, RATE_LIMIT_WINDOW, now)
        id == find_user_by_email(users, email)
        us == update_last_login(users, id, now)
        signed == sign_token(sessions, us[id], uuid4(uuidCount), now)
    IN  /\ nreq < MaxReqs
        /\ nreq' = nreq + 1
        /\ UNCHANGED NotAuth
        /\ rate_limit_store' = rl.store
        /\ UNCHANGED <<now, ticks, ended>>
        /\ users' = us
        /\ IF ~rl.ok
           THEN /\ resp' = Reply("login", 429, "Rate limit exceeded", NoId)
                /\ UNCHANGED <<uuidCount, sessions, issued>>
           ELSE IF id = NoId \/ ~bcrypt_verify(password, users[id].password_hash)
           THEN /\ resp' = Reply("login", 401, "Invalid credentials", NoId)
                /\ UNCHANGED <<uuidCount, sessions, issued>>
           ELSE /\ uuidCount' = uuidCount + 1
                /\ sessions' = signed.sessions
                /\ issued' = Hand(signed, id, "login")
                /\ resp' = Pair(Reply("login", 200, "", NoId), signed, id)
login(email, password, host) ==
    LET rl == rate_limit(rate_limit_store, Key("login", host),
                         LOGIN_LIMIT, RATE_LIMIT_WINDOW, now)
        id == find_user_by_email(users, email)
        us == update_last_login(users, id, now)
        signed == sign_token(sessions, us[id], uuid4(uuidCount), now)
    IN  /\ nreq < MaxReqs
        /\ nreq' = nreq + 1
        /\ UNCHANGED NotAuth
        /\ rate_limit_store' = rl.store
        /\ UNCHANGED <<now, ticks, ended>>
        /\ IF ~rl.ok
           THEN /\ resp' = Reply("login", 429, "Rate limit exceeded", NoId)
                /\ UNCHANGED <<uuidCount, users, sessions, issued>>
           ELSE IF id = NoId \/ ~bcrypt_verify(password, users[id].password_hash)
           THEN /\ resp' = Reply("login", 401, "Invalid credentials", NoId)
                /\ UNCHANGED <<uuidCount, users, sessions, issued>>
           ELSE /\ uuidCount' = uuidCount + 1
                /\ users' = us
                /\ sessions' = signed.sessions
                /\ issued' = Hand(signed, id, "login")
                /\ resp' = Pair(Reply("login", 200, "", NoId), signed, id)

refresh_token(data, credentials) ==
    LET auth == get_current_user(credentials, users, now)
        session == get_session(sessions, data)
        owner == sessions[data].user_id
        signed == sign_token(delete_session(sessions, data), users[owner],
                             uuid4(uuidCount), now)
    IN  /\ nreq < MaxReqs
        /\ nreq' = nreq + 1
        /\ UNCHANGED NotAuth
        /\ UNCHANGED <<now, ticks, users, rate_limit_store>>
        /\ IF auth.status # 200
           THEN /\ resp' = Authed(Reply("refresh", auth.status, auth.detail, data),
                                  credentials)
                /\ UNCHANGED <<uuidCount, sessions, issued, ended>>
           ELSE IF session = {}
           THEN /\ resp' = Authed(Reply("refresh", 401, "Invalid refresh token", data),
                                  credentials)
                /\ UNCHANGED <<uuidCount, sessions, issued, ended>>
           ELSE IF owner \notin DOMAIN users
           THEN /\ resp' = Authed(Reply("refresh", 401, "User not found", data),
                                  credentials)
                /\ UNCHANGED <<uuidCount, sessions, issued, ended>>
           ELSE /\ uuidCount' = uuidCount + 1
                /\ sessions' = signed.sessions
                /\ issued' = Hand(signed, owner, "refresh")
                /\ ended' = End({data}, "rotated")
                /\ resp' = Authed(Pair(Reply("refresh", 200, "", data), signed, NoId),
                                  credentials)

logout_Forget(credentials) ==
    LET auth == get_current_user(credentials, users, now)
        left == delete_sessions_for_user(sessions, auth.user)
    IN  /\ nreq < MaxReqs
        /\ nreq' = nreq + 1
        /\ UNCHANGED NotAuth
        /\ UNCHANGED <<now, ticks, uuidCount, rate_limit_store, issued>>
        /\ IF auth.status # 200
           THEN /\ resp' = Authed(Reply("logout", auth.status, auth.detail, NoId),
                                  credentials)
                /\ UNCHANGED <<users, sessions, ended>>
           ELSE /\ sessions' = left
                /\ users' = Drop(users, {auth.user})
                /\ ended' = End(IssuedTo(auth.user), "logout")
                /\ resp' = Authed([Reply("logout", 200, "", NoId)
                                      EXCEPT !.user = auth.user], credentials)
logout(credentials) ==
    LET auth == get_current_user(credentials, users, now)
        left == delete_sessions_for_user(sessions, auth.user)
    IN  /\ nreq < MaxReqs
        /\ nreq' = nreq + 1
        /\ UNCHANGED NotAuth
        /\ UNCHANGED <<now, ticks, uuidCount, users, rate_limit_store, issued>>
        /\ IF auth.status # 200
           THEN /\ resp' = Authed(Reply("logout", auth.status, auth.detail, NoId),
                                  credentials)
                /\ UNCHANGED <<sessions, ended>>
           ELSE /\ sessions' = left
                /\ ended' = End(IssuedTo(auth.user), "logout")
                /\ resp' = Authed([Reply("logout", 200, "", NoId)
                                      EXCEPT !.user = auth.user], credentials)

list_users_RateFirst(credentials, host) ==
    LET auth == require_admin(credentials, users, now)
        rl == rate_limit(rate_limit_store, Key("admin_users", host),
                         ADMIN_USERS_LIMIT, RATE_LIMIT_WINDOW, now)
    IN  /\ nreq < MaxReqs
        /\ nreq' = nreq + 1
        /\ UNCHANGED NotAuth
        /\ UNCHANGED <<now, ticks, uuidCount, users, sessions, issued, ended>>
        /\ rate_limit_store' = rl.store
        /\ resp' = IF ~rl.ok
                   THEN Reply("list_users", 429, "Rate limit exceeded", NoId)
                   ELSE IF auth.status # 200
                   THEN Authed(Reply("list_users", auth.status, auth.detail, NoId),
                               credentials)
                   ELSE [Reply("list_users", 200, "", NoId) EXCEPT !.user = auth.user]
list_users(credentials, host) ==
    LET auth == require_admin(credentials, users, now)
        rl == rate_limit(rate_limit_store, Key("admin_users", host),
                         ADMIN_USERS_LIMIT, RATE_LIMIT_WINDOW, now)
    IN  /\ nreq < MaxReqs
        /\ nreq' = nreq + 1
        /\ UNCHANGED NotAuth
        /\ UNCHANGED <<now, ticks, uuidCount, users, sessions, issued, ended>>
        /\ IF auth.status # 200
           THEN /\ resp' = Authed(Reply("list_users", auth.status, auth.detail, NoId),
                                  credentials)
                /\ UNCHANGED rate_limit_store
           ELSE /\ rate_limit_store' = rl.store
                /\ resp' = IF rl.ok
                           THEN [Reply("list_users", 200, "", NoId)
                                    EXCEPT !.user = auth.user]
                           ELSE Reply("list_users", 429, "Rate limit exceeded", NoId)

get_me_Touch(credentials) ==
    LET auth == get_current_user(credentials, users, now)
    IN  /\ nreq < MaxReqs
        /\ nreq' = nreq + 1
        /\ UNCHANGED NotAuth
        /\ resp' = Authed([Reply("get_me", auth.status, auth.detail, NoId)
                              EXCEPT !.user = auth.user], credentials)
        /\ users' = update_last_login(users, auth.user, now)
        /\ UNCHANGED <<now, ticks, uuidCount, sessions, rate_limit_store,
                       issued, ended>>
get_me(credentials) ==
    LET auth == get_current_user(credentials, users, now)
    IN  /\ nreq < MaxReqs
        /\ nreq' = nreq + 1
        /\ UNCHANGED NotAuth
        /\ resp' = Authed([Reply("get_me", auth.status, auth.detail, NoId)
                              EXCEPT !.user = auth.user], credentials)
        /\ UNCHANGED <<now, ticks, uuidCount, users, sessions, rate_limit_store,
                       issued, ended>>

cleanup_expired_sessions ==
    LET left == query_expired_sessions(sessions, now)
    IN  /\ nreq < MaxReqs
        /\ nreq' = nreq + 1
        /\ UNCHANGED NotAuth
        /\ sessions' = left
        /\ ended' = End(expired_sessions(sessions, now), "sweep")
        /\ resp' = [Reply("cleanup", 200, "", NoId)
                       EXCEPT !.removed = expired_sessions(sessions, now),
                              !.at = now]
        /\ UNCHANGED <<now, ticks, uuidCount, users, rate_limit_store, issued>>

\* The other programs have served nothing.
InitOthers ==
    /\ webhook_logs = <<>>
    /\ payments = Empty
    /\ customers = Empty
    /\ connections = <<>>
    /\ ws = Empty
    /\ sent = Empty
    /\ queues = Empty
    /\ proc = Empty
    /\ enqueued = Empty
    /\ handled = <<>>

InitAuth ==
    /\ now = 0
    /\ ticks = 0
    /\ uuidCount = 0
    /\ users = Empty
    /\ sessions = Empty
    /\ rate_limit_store = Empty
    /\ issued = Empty
    /\ ended = Empty
    /\ resp = NoResp
    /\ nreq = 0

Init ==
    /\ InitAuth
    /\ th = Empty
    /\ list_id = Empty
    /\ InitOthers
    /\ limit = 0
    /\ log = Empty

Next ==
    \/ \E d \in TickSteps : Tick(d)
    \/ \E e \in Emails, n \in Names, p \in Registered, h \in Hosts : register(e, n, p, h)
    \/ \E e \in Emails, p \in Passwords, h \in Hosts : login(e, p, h)
    \/ \E r \in RefreshInputs, c \in Credentials : refresh_token(r, c)
    \/ \E c \in Credentials : get_me(c)
    \/ \E c \in Credentials : logout(c)
    \/ \E c \in Credentials, h \in Hosts : list_users(c, h)
    \/ cleanup_expired_sessions

Spec == Init /\ [][Next]_vars

\* ===================================================== glyph service
\* PyJWT decode: a token is rejected once exp <= now.
pyjwt_decode_ok(token, key, t) ==
    token.wellformed /\ token.key = key /\ ~(token.exp <= t)

\* jwt_sign: the subject travels in the "user_id" claim of the payload, held
\* here in the token's `sub` field; the expiry argument ("7d") is not used.
jwt_sign(payload, t) ==
    jwt_encode([payload EXCEPT !.exp = t + JWT_EXPIRY_SECONDS], JWT_SECRET)

UserCollection_Where(us, email) == {id \in DOMAIN us : us[id].email = email}

UserCollection_Create(us, id, email, name, password_hash, t) ==
    Put(us, id, [id |-> id, email |-> email, name |-> name,
                 password_hash |-> password_hash, role |-> "user",
                 created_at |-> t, last_login |-> -1])

UserCollection_Update(us, id, t) == [us EXCEPT ![id].last_login = t]

\* SessionCollection.Where with one filter: s.get(key) == value.
SessionCollection_Where(store, field, value) ==
    {k \in DOMAIN store :
        field \in DOMAIN store[k] /\ store[k][field] = value}

SessionCollection_Delete(store, user_id) ==
    Drop(store, {k \in DOMAIN store :
                    "user_id" \in DOMAIN store[k] /\ store[k]["user_id"] = user_id})

\* payload["user_id"] of a decoded token that has no such claim raises
\* KeyError, which the handler does not catch (500).
get_current_user_glyph(credentials, t) ==
    IF ~pyjwt_decode_ok(credentials, JWT_SECRET, t)
    THEN [status |-> 401, detail |-> "Invalid token", user |-> NoId, role |-> ""]
    ELSE IF credentials.sub = NoId
    THEN [status |-> 500, detail |-> "KeyError", user |-> NoId, role |-> ""]
    ELSE [status |-> 200, detail |-> "", user |-> credentials.sub,
          role |-> IF credentials.role = "" THEN "user" ELSE credentials.role]

require_admin_glyph(credentials, t) ==
    LET auth == get_current_user_glyph(credentials, t)
    IN  IF auth.status # 200 THEN auth
        ELSE IF auth.role # "admin"
        THEN [auth EXCEPT !.status = 403, !.detail = "Admin access required"]
        ELSE auth

check_rate_limit(store, key, max_requests, t) ==
    LET had  == IF key \in DOMAIN store THEN store[key] ELSE <<>>
        kept == SelectSeq(had, LAMBDA x : t - x < RATE_LIMIT_WINDOW)
    IN  IF Len(kept) >= max_requests
        THEN [ok |-> FALSE, store |-> Put(store, key, kept)]
        ELSE [ok |-> TRUE, store |-> Put(store, key, Append(kept, t))]

GlyphPair(r, token, refresh, user_id) ==
    [r EXCEPT !.token = token, !.refresh_token = refresh,
              !.expires_in = 3600, !.user = user_id]

register_glyph(email, name, password) ==
    LET rl == check_rate_limit(rate_limit_store, Key("register", email),
                               REGISTER_LIMIT, now)
        id == generate_id(uuidCount)
        us == UserCollection_Create(users, id, email, name, bcrypt_hash(password), now)
        token == jwt_sign([sub |-> id, email |-> email, role |-> "user", exp |-> 0], now)
        refresh == generate_id(uuidCount + 1)
    IN  /\ nreq < MaxReqs
        /\ nreq' = nreq + 1
        /\ UNCHANGED NotAuth
        /\ rate_limit_store' = rl.store
        /\ UNCHANGED <<now, ticks, sessions, ended>>
        /\ IF ~rl.ok
           THEN /\ resp' = Reply("register", 429, "Rate limit exceeded", NoId)
                /\ UNCHANGED <<uuidCount, users, issued>>
           ELSE IF UserCollection_Where(users, email) # {}
           THEN /\ resp' = Reply("register", 409, "Email already registered", NoId)
                /\ UNCHANGED <<uuidCount, users, issued>>
           ELSE /\ uuidCount' = uuidCount + 2
                /\ users' = us
                /\ issued' = Put(issued, refresh, [token |-> token, user_id |-> id,
                                                by |-> "register",
                                                at |-> now, expires_in |-> 3600])
                /\ resp' = GlyphPair(Reply("register", 200, "", NoId), token, refresh, id)

login_glyph(email, password) ==
    LET rl == check_rate_limit(rate_limit_store, Key("login", email),
                               LOGIN_LIMIT, now)
        found == UserCollection_Where(users, email)
        id == CHOOSE u \in found : \A o \in found : u <= o
        token == jwt_sign([sub |-> id, email |-> email, role |-> users[id].role,
                           exp |-> 0], now)
        refresh == generate_id(uuidCount)
    IN  /\ nreq < MaxReqs
        /\ nreq' = nreq + 1
        /\ UNCHANGED NotAuth
        /\ rate_limit_store' = rl.store
        /\ UNCHANGED <<now, ticks, sessions, ended>>
        /\ IF ~rl.ok
           THEN /\ resp' = Reply("login", 429, "Rate limit exceeded", NoId)
                /\ UNCHANGED <<uuidCount, users, issued>>
           ELSE IF found = {}
           THEN /\ resp' = Reply("login", 401, "Invalid credentials", NoId)
                /\ UNCHANGED <<uuidCount, users, issued>>
           ELSE IF ~bcrypt_verify(password, users[id].password_hash)
           THEN /\ resp' = Reply("login", 401, "Invalid credentials", NoId)
                /\ UNCHANGED <<uuidCount, users, issued>>
           ELSE /\ uuidCount' = uuidCount + 1
                /\ users' = UserCollection_Update(users, id, now)
                /\ issued' = Put(issued, refresh, [token |-> token, user_id |-> id,
                                                by |-> "login",
                                                at |-> now, expires_in |-> 3600])
                /\ resp' = GlyphPair(Reply("login", 200, "", NoId), token, refresh, id)

refresh_token_glyph(data, credentials) ==
    LET auth == get_current_user_glyph(credentials, now)
        found == SessionCollection_Where(sessions, "refresh_token", data)
        first_session == sessions[CHOOSE k \in found : \A o \in found : k <= o]
        token == jwt_sign([sub |-> auth.user, email |-> "", role |-> auth.role,
                           exp |-> 0], now)
        owner == IF "user_id" \in DOMAIN first_session
                 THEN first_session["user_id"] ELSE auth.user
        refresh == generate_id(uuidCount)
    IN  /\ nreq < MaxReqs
        /\ nreq' = nreq + 1
        /\ UNCHANGED NotAuth
        /\ UNCHANGED <<now, ticks, users, sessions, rate_limit_store>>
        /\ IF auth.status # 200
           THEN /\ resp' = Authed(Reply("refresh", auth.status, auth.detail, data),
                                  credentials)
                /\ UNCHANGED <<uuidCount, issued, ended>>
           ELSE IF found = {}
           THEN /\ resp' = Authed(Reply("refresh", 401, "Invalid refresh token", data),
                                  credentials)
                /\ UNCHANGED <<uuidCount, issued, ended>>
           ELSE IF owner \notin DOMAIN users
           THEN /\ resp' = Authed(Reply("refresh", 404, "User not found", data),
                                  credentials)
                /\ UNCHANGED <<uuidCount, issued, ended>>
           ELSE /\ uuidCount' = uuidCount + 1
                /\ issued' = Put(issued, refresh, [token |-> token, user_id |-> owner,
                                                   by |-> "refresh",
                                                at |-> now, expires_in |-> 3600])
                /\ ended' = End({data}, "rotated")
                /\ resp' = Authed(GlyphPair(Reply("refresh", 200, "", data),
                                            token, refresh, owner), credentials)

logout_glyph(credentials) ==
    LET auth == get_current_user_glyph(credentials, now)
        left == SessionCollection_Delete(sessions, auth.user)
    IN  /\ nreq < MaxReqs
        /\ nreq' = nreq + 1
        /\ UNCHANGED NotAuth
        /\ UNCHANGED <<now, ticks, uuidCount, users, rate_limit_store, issued>>
        /\ IF auth.status # 200
           THEN /\ resp' = Authed(Reply("logout", auth.status, auth.detail, NoId),
                                  credentials)
                /\ UNCHANGED <<sessions, ended>>
           ELSE /\ sessions' = left
                /\ ended' = End(IssuedTo(auth.user), "logout")
                /\ resp' = Authed([Reply("logout", 200, "", NoId)
                                      EXCEPT !.user = auth.user], credentials)

list_users_glyph(credentials) ==
    LET auth == require_admin_glyph(credentials, now)
        rl == check_rate_limit(rate_limit_store, Key("admin_users", auth.user),
                               ADMIN_USERS_LIMIT, now)
    IN  /\ nreq < MaxReqs
        /\ nreq' = nreq + 1
        /\ UNCHANGED NotAuth
        /\ UNCHANGED <<now, ticks, uuidCount, users, sessions, issued, ended>>
        /\ IF auth.status # 200
           THEN /\ resp' = Authed(Reply("list_users", auth.status, auth.detail, NoId),
                                  credentials)
                /\ UNCHANGED rate_limit_store
           ELSE /\ rate_limit_store' = rl.store
                /\ resp' = IF rl.ok
                           THEN [Reply("list_users", 200, "", NoId)
                                    EXCEPT !.user = auth.user]
                           ELSE Reply("list_users", 429, "Rate limit exceeded", NoId)

get_me_glyph(credentials) ==
    LET auth == get_current_user_glyph(credentials, now)
    IN  /\ nreq < MaxReqs
        /\ nreq' = nreq + 1
        /\ UNCHANGED NotAuth
        /\ resp' = IF auth.status # 200
                   THEN Authed(Reply("get_me", auth.status, auth.detail, NoId),
                               credentials)
                   ELSE IF auth.user \notin DOMAIN users
                   THEN Authed(Reply("get_me", 404, "User not found", NoId),
                               credentials)
                   ELSE Authed([Reply("get_me", 200, "", NoId)
                                   EXCEPT !.user = auth.user], credentials)
        /\ UNCHANGED <<now, ticks, uuidCount, users, sessions, rate_limit_store,
                       issued, ended>>

session_cleanup ==
    LET expired == SessionCollection_Where(sessions, "expired", TRUE)
        gone == {k \in DOMAIN sessions :
                    \E e \in expired :
                        /\ "user_id" \in DOMAIN sessions[k]
                        /\ sessions[k]["user_id"] =
                              (IF "user_id" \in DOMAIN sessions[e]
                               THEN sessions[e]["user_id"] ELSE NoId)}
    IN  /\ nreq < MaxReqs
        /\ nreq' = nreq + 1
        /\ UNCHANGED NotAuth
        /\ sessions' = Drop(sessions, gone)
        /\ ended' = End({sessions[k]["refresh_token"] : k \in gone}, "sweep")
        /\ resp' = [Reply("cleanup", 200, "", NoId) EXCEPT !.at = now]
        /\ UNCHANGED <<now, ticks, uuidCount, users, rate_limit_store, issued>>

NextGlyph ==
    \/ \E d \in TickSteps : Tick(d)
    \/ \E e \in Emails, n \in Names, p \in Registered : register_glyph(e, n, p)
    \/ \E e \in Emails, p \in Passwords : login_glyph(e, p)
    \/ \E r \in RefreshInputs, c \in Credentials : refresh_token_glyph(r, c)
    \/ \E c \in Credentials : get_me_glyph(c)
    \/ \E c \in Credentials : logout_glyph(c)
    \/ \E c \in Credentials : list_users_glyph(c)
    \/ session_cleanup

SpecGlyph == Init /\ [][NextGlyph]_vars

\* ============================================ glyph service, sessions
\* No glyph route calls SessionCollection.Create, so what refresh, logout
\* and session_cleanup do with a session is seen only on a store that has
\* been filled through Create: sessions of the two stored users, keyed by
\* their "id", each with the refresh token of its client and, for some, the
\* "expired" mark that session_cleanup looks for.
SessionCollection_Create(store, data) == Put(store, data["id"], data)

GlyphUsers ==
    UserCollection_Create(
        UserCollection_Create(Empty, 1, "a@x.com", "Ann", bcrypt_hash("pw1"), 0),
        2, "b@x.com", "Ann", bcrypt_hash("pw1"), 0)
GlyphSession(id, user_id, refresh, marked) ==
    LET data == [id |-> id, user_id |-> user_id, refresh_token |-> refresh,
                 created_at |-> 0]
    IN  IF marked THEN Put(data, "expired", TRUE) ELSE data
GlyphSessions ==
    {GlyphSession(5, 1, 3, m) : m \in BOOLEAN}
       \cup {GlyphSession(6, u, 4, m) : u \in DOMAIN GlyphUsers, m \in BOOLEAN}
GlyphStores ==
    {SessionCollection_Create(SessionCollection_Create(Empty, a), b) :
        a \in GlyphSessions, b \in GlyphSessions}
\* What a client presents to refresh: the refresh token of a stored session
\* or a string that is none.
GlyphRefreshInputs == {a["refresh_token"] : a \in GlyphSessions} \cup {NoId}

InitGlyphStore ==
    /\ now = 0
    /\ ticks = 0
    /\ uuidCount = 6
    /\ users = GlyphUsers
    /\ sessions \in GlyphStores
    /\ rate_limit_store = Empty
    /\ issued = Empty
    /\ ended = Empty
    /\ resp = NoResp
    /\ nreq = 0
    /\ th = Empty
    /\ list_id = Empty
    /\ InitOthers
    /\ limit = 0
    /\ log = Empty

NextGlyphStore ==
    \/ \E d \in TickSteps : Tick(d)
    \/ \E e \in Emails, p \in Registered : login_glyph(e, p)
    \/ \E r \in GlyphRefreshInputs, c \in Credentials : refresh_token_glyph(r, c)
    \/ \E c \in Credentials : logout_glyph(c)
    \/ session_cleanup

SpecGlyphStore == InitGlyphStore /\ [][NextGlyphStore]_vars

\* ==================================================== guards, callers
\* get_current_user and require_admin as functions of what they are given:
\* any bearer string a caller can present, against a user store whose two
\* users hold any of the two roles. A token is described by the key that
\* signed it, its subject (NoId: no "sub" claim) and its expiry instant.
\* The registry holds one session, of the first user.
SeedRoles == {"user", "admin"}
SeedUsers(r1, r2) ==
    [create_user(create_user(Empty, 1, "a@x.com", "Ann", bcrypt_hash("pw1"), 0),
                 2, "b@x.com", "Ann", bcrypt_hash("pw1"), 0)
        EXCEPT ![1].role = r1, ![2].role = r2]
GuardUsers == {SeedUsers(r1, r2) : r1 \in SeedRoles, r2 \in SeedRoles}
GuardTokens ==
    {jwt_encode([sub |-> s, email |-> "", role |-> "user", exp |-> e], k) :
        s \in {NoId, 1, 2, 3}, e \in {0, ACCESS_TOKEN_EXPIRE},
        k \in {SECRET_KEY, "other"}}
      \cup {MalformedToken}

InitGuard ==
    /\ now = 0
    /\ ticks = 0
    /\ uuidCount = 3
    /\ users \in GuardUsers
    /\ sessions = create_session(Empty, 1, 3, 0)
    /\ rate_limit_store = Empty
    /\ issued = Empty
    /\ ended = Empty
    /\ resp = NoResp
    /\ nreq = 0
    /\ th = Empty
    /\ list_id = Empty
    /\ InitOthers
    /\ limit = 0
    /\ log = Empty

NextGuard ==
    \/ \E d \in TickSteps : Tick(d)
    \/ \E c \in GuardTokens : get_me(c)
    \/ \E c \in GuardTokens, h \in Hosts : list_users(c, h)

SpecGuard == InitGuard /\ [][NextGuard]_vars

\* ============================================ text service, limited
\* register and login called when the buckets of their limiters are full
\* or one short of it: the state at time 0 after one register of a@x.com,
\* further registers of the same email (each recorded by the limiter, then
\* refused with 409) and logins with a wrong password (each recorded, then
\* refused with 401).
Stamps(n, t) == [i \in 1 .. n |-> t]
FirstUser == create_user(Empty, uuid4(0), "a@x.com", "Ann", bcrypt_hash("pw1"), 0)
FirstSigned == sign_token(Empty, FirstUser[uuid4(0)], uuid4(1), 0)
LimitedStores ==
    {Put(Put(Empty, Key("register", "h1"), Stamps(n, 0)),
         Key("login", "h1"), Stamps(m, 0)) :
        n \in {REGISTER_LIMIT - 1, REGISTER_LIMIT},
        m \in {LOGIN_LIMIT - 1, LOGIN_LIMIT}}
LimitedSteps == {1, RATE_LIMIT_WINDOW - 1, RATE_LIMIT_WINDOW}

InitLimited ==
    /\ now = 0
    /\ ticks = 0
    /\ uuidCount = 2
    /\ users = FirstUser
    /\ sessions = FirstSigned.sessions
    /\ rate_limit_store \in LimitedStores
    /\ issued = Put(Empty, FirstSigned.refresh_token,
                    [token |-> FirstSigned.access_token, user_id |-> uuid4(0),
                     by |-> "register", at |-> 0,
                     expires_in |-> FirstSigned.expires_in])
    /\ ended = Empty
    /\ resp = NoResp
    /\ nreq = 0
    /\ th = Empty
    /\ list_id = Empty
    /\ InitOthers
    /\ limit = 0
    /\ log = Empty

NextLimited ==
    \/ \E d \in LimitedSteps : Tick(d)
    \/ \E e \in Emails, n \in Names, p \in Registered, h \in Hosts : register(e, n, p, h)
    \/ \E e \in Emails, p \in Passwords, h \in Hosts : login(e, p, h)

SpecLimited == InitLimited /\ [][NextLimited]_vars

\* ============================================ text service, threads
\* refresh_token and logout executed statement by statement: each thread
\* serves one request, and a step is one statement that reads or writes
\* the shared Database. register and login run to completion, as in Spec.
Threads == 1 .. NThreads

Frame == [pc |-> "idle", op |-> "none", data |-> NoId, key |-> <<"", "">>,
          cred |-> NoToken, t |-> 0, user |-> NoId, owner |-> NoId,
          to_delete |-> <<>>, ref |-> 0, tmp |-> <<>>,
          status |-> 0, detail |-> "", new_rt |-> NoId,
          live |-> FALSE, known |-> {}, after |-> {}]

Done(i) == {j \in Threads : th[j].pc = "done"}
Return(f, status, detail) ==
    [f EXCEPT !.pc = "done", !.status = status, !.detail = detail]

RECURSIVE Ascending(_)
Ascending(S) ==
    IF S = {} THEN <<>>
    ELSE LET m == CHOOSE x \in S : \A y \in S : x <= y
         IN  <<m>> \o Ascending(S \ {m})

ThreadsLeave == <<now, ticks, rate_limit_store, resp, list_id, limit, log,
                  Webhook, Chat, Queue>>

\* Depends(get_current_user), then the handler is entered.
refresh_auth(i, data, credentials) ==
    LET auth == get_current_user(credentials, users, now)
        f == [Frame EXCEPT !.op = "refresh", !.data = data, !.cred = credentials,
                           !.user = auth.user,
                           !.live = get_session(sessions, data) # {},
                           !.after = Done(i)]
    IN  /\ th[i].pc = "idle"
        /\ nreq < MaxReqs
        /\ nreq' = nreq + 1
        /\ th' = [th EXCEPT ![i] =
                    IF auth.status # 200
                    THEN Return(f, auth.status, auth.detail)
                    ELSE [f EXCEPT !.pc = "get_session"]]
        /\ UNCHANGED <<uuidCount, users, sessions, issued, ended>>
        /\ UNCHANGED ThreadsLeave

\* session = database.get_session(data.refresh_token)
refresh_get_session(i) ==
    /\ th[i].pc = "get_session"
    /\ th' = [th EXCEPT ![i] =
                IF get_session(sessions, th[i].data) = {}
                THEN Return(th[i], 401, "Invalid refresh token")
                ELSE [th[i] EXCEPT !.pc = "get_user",
                                   !.owner = sessions[th[i].data].user_id]]
    /\ UNCHANGED <<uuidCount, users, sessions, issued, ended, nreq>>
    /\ UNCHANGED ThreadsLeave

\* user = database.get_user(session["user_id"])
refresh_get_user(i) ==
    /\ th[i].pc = "get_user"
    /\ th' = [th EXCEPT ![i] =
                IF th[i].owner \notin DOMAIN users
                THEN Return(th[i], 401, "User not found")
                ELSE [th[i] EXCEPT !.pc = "delete_session"]]
    /\ UNCHANGED <<uuidCount, users, sessions, issued, ended, nreq>>
    /\ UNCHANGED ThreadsLeave

\* database.delete_session(data.refresh_token); its result is not used.
refresh_delete_session(i) ==
    /\ th[i].pc = "delete_session"
    /\ sessions' = delete_session(sessions, th[i].data)
    /\ th' = [th EXCEPT ![i].pc = "sign_token"]
    /\ UNCHANGED <<uuidCount, users, issued, ended, nreq>>
    /\ UNCHANGED ThreadsLeave

\* access_token, new_refresh_token, expires_in = sign_token(user)
refresh_sign_token(i) ==
    LET signed == sign_token(sessions, users[th[i].owner], uuid4(uuidCount), now)
    IN  /\ th[i].pc = "sign_token"
        /\ uuidCount' = uuidCount + 1
        /\ sessions' = signed.sessions
        /\ issued' = Hand(signed, th[i].owner, "refresh")
        /\ ended' = End({th[i].data}, "rotated")
        /\ th' = [th EXCEPT ![i] =
                    [Return(th[i], 200, "") EXCEPT !.new_rt = signed.refresh_token]]
        /\ UNCHANGED <<users, nreq>>
        /\ UNCHANGED ThreadsLeave

logout_auth(i, credentials) ==
    LET auth == get_current_user(credentials, users, now)
        f == [Frame EXCEPT !.op = "logout", !.cred = credentials,
                           !.user = auth.user,
                           !.known = IssuedTo(auth.user),
                           !.after = Done(i)]
    IN  /\ th[i].pc = "idle"
        /\ nreq < MaxReqs
        /\ nreq' = nreq + 1
        /\ th' = [th EXCEPT ![i] =
                    IF auth.status # 200
                    THEN Return(f, auth.status, auth.detail)
                    ELSE [f EXCEPT !.pc = "select"]]
        /\ UNCHANGED <<uuidCount, users, sessions, issued, ended>>
        /\ UNCHANGED ThreadsLeave

\* to_delete = [k for k, v in self._sessions.items() if v["user_id"] == user_id]
logout_select(i) ==
    /\ th[i].pc = "select"
    /\ th' = [th EXCEPT ![i].pc = "del",
                        ![i].to_delete =
                            Ascending({k \in DOMAIN sessions :
                                          sessions[k].user_id = th[i].user})]
    /\ UNCHANGED <<uuidCount, users, sessions, issued, ended, nreq>>
    /\ UNCHANGED ThreadsLeave

\* for k in to_delete: del self._sessions[k]   (KeyError when k is gone)
logout_del(i) ==
    LET todo == th[i].to_delete
    IN  /\ th[i].pc = "del"
        /\ UNCHANGED <<uuidCount, users, issued, nreq>>
        /\ UNCHANGED ThreadsLeave
        /\ IF todo = <<>>
           THEN /\ th' = [th EXCEPT ![i] = Return(th[i], 200, "")]
                /\ ended' = End(th[i].known, "logout")
                /\ UNCHANGED sessions
           ELSE IF Head(todo) \notin DOMAIN sessions
           THEN /\ th' = [th EXCEPT ![i] = Return(th[i], 500, "KeyError")]
                /\ UNCHANGED <<sessions, ended>>
           ELSE /\ sessions' = Drop(sessions, {Head(todo)})
                /\ th' = [th EXCEPT ![i].to_delete = Tail(todo)]
                /\ UNCHANGED ended

\* register and login of Spec, with the threads' frames left alone.
InitThreads ==
    /\ InitAuth
    /\ th = [i \in Threads |-> Frame]
    /\ list_id = Empty
    /\ InitOthers
    /\ limit = 0
    /\ log = Empty

NextThreads ==
    \/ \E e \in Emails, n \in Names, p \in Registered, h \in Hosts : register(e, n, p, h)
    \/ \E e \in Emails, p \in Passwords, h \in Hosts : login(e, p, h)
    \/ \E i \in Threads, r \in RefreshInputs, c \in Credentials : refresh_auth(i, r, c)
    \/ \E i \in Threads : refresh_get_session(i)
    \/ \E i \in Threads : refresh_get_user(i)
    \/ \E i \in Threads : refresh_delete_session(i)
    \/ \E i \in Threads : refresh_sign_token(i)
    \/ \E i \in Threads, c \in Credentials : logout_auth(i, c)
    \/ \E i \in Threads : logout_select(i)
    \/ \E i \in Threads : logout_del(i)

SpecThreads == InitThreads /\ [][NextThreads]_vars

\* ====================================== text service, sweep on threads
\* cleanup_expired_sessions executed statement by statement next to the
\* requests of SpecThreads, with the clock advancing. The list
\* comprehension of query_expired_sessions is taken as one step.
\* now = time.time()
sweep_enter(i) ==
    /\ th[i].pc = "idle"
    /\ nreq < MaxReqs
    /\ nreq' = nreq + 1
    /\ th' = [th EXCEPT ![i] = [Frame EXCEPT !.pc = "sweep_select", !.op = "sweep",
                                             !.t = now, !.after = Done(i)]]
    /\ UNCHANGED <<uuidCount, users, sessions, issued, ended>>
    /\ UNCHANGED ThreadsLeave

\* expired = [k for k, v in self._sessions.items()
\*            if now - v["created_at"] > REFRESH_TOKEN_EXPIRE]
sweep_select(i) ==
    LET expired == expired_sessions(sessions, th[i].t)
    IN  /\ th[i].pc = "sweep_select"
        /\ th' = [th EXCEPT ![i].pc = "sweep_del",
                            ![i].to_delete = Ascending(expired),
                            ![i].known = expired]
        /\ UNCHANGED <<uuidCount, users, sessions, issued, ended, nreq>>
        /\ UNCHANGED ThreadsLeave

\* for k in expired: del self._sessions[k]   (KeyError when k is gone)
\* return expired
sweep_del(i) ==
    LET todo == th[i].to_delete
    IN  /\ th[i].pc = "sweep_del"
        /\ UNCHANGED <<uuidCount, users, issued, nreq>>
        /\ UNCHANGED ThreadsLeave
        /\ IF todo = <<>>
           THEN /\ th' = [th EXCEPT ![i] = Return(th[i], 200, "")]
                /\ ended' = End(th[i].known, "sweep")
                /\ UNCHANGED sessions
           ELSE IF Head(todo) \notin DOMAIN sessions
           THEN /\ th' = [th EXCEPT ![i] = Return(th[i], 500, "KeyError")]
                /\ UNCHANGED <<sessions, ended>>
           ELSE /\ sessions' = Drop(sessions, {Head(todo)})
                /\ th' = [th EXCEPT ![i].to_delete = Tail(todo)]
                /\ UNCHANGED ended

NextSweepThreads ==
    \/ \E d \in TickSteps : Tick(d)
    \/ \E e \in Emails, n \in Names, p \in Registered, h \in Hosts : register(e, n, p, h)
    \/ \E e \in Emails, p \in Registered, h \in Hosts : login(e, p, h)
    \/ \E i \in Threads, r \in RefreshInputs, c \in Credentials : refresh_auth(i, r, c)
    \/ \E i \in Threads : refresh_get_session(i)
    \/ \E i \in Threads : refresh_get_user(i)
    \/ \E i \in Threads : refresh_delete_session(i)
    \/ \E i \in Threads : refresh_sign_token(i)
    \/ \E i \in Threads, c \in Credentials : logout_auth(i, c)
    \/ \E i \in Threads : logout_select(i)
    \/ \E i \in Threads : logout_del(i)
    \/ \E i \in Threads : sweep_enter(i)
    \/ \E i \in Threads : sweep_select(i)
    \/ \E i \in Threads : sweep_del(i)

SpecSweepThreads == InitThreads /\ [][NextSweepThreads]_vars

\* ================================================== limiter, callers
\* rate_limit(key, max_requests) called with one limit for the whole run
\* and the default window, as the routes call it.
RateKeys == {Key("check", "k1"), Key("check", "k2")}
RateSteps == {1, RATE_LIMIT_WINDOW - 1, RATE_LIMIT_WINDOW}
Logged(key, ok, t) == [log EXCEPT ![key] = Append(@, [t |-> t, ok |-> ok])]

InitRate ==
    /\ InitAuth
    /\ th = Empty
    /\ list_id = Empty
    /\ InitOthers
    /\ limit \in 1 .. MaxLimit
    /\ log = [k \in RateKeys |-> <<>>]

check(key) ==
    LET rl == rate_limit(rate_limit_store, key, limit, RATE_LIMIT_WINDOW, now)
    IN  /\ nreq < MaxChecks
        /\ nreq' = nreq + 1
        /\ rate_limit_store' = rl.store
        /\ log' = Logged(key, rl.ok, now)
        /\ resp' = IF rl.ok THEN Reply("check", 200, "", NoId)
                   ELSE Reply("check", 429, "Rate limit exceeded", NoId)
        /\ UNCHANGED <<now, ticks, uuidCount, users, sessions, issued, ended,
                       th, list_id, limit, Webhook, Chat, Queue>>

NextRate ==
    \/ \E d \in RateSteps : Tick(d)
    \/ \E k \in RateKeys : check(k)

SpecRate == InitRate /\ [][NextRate]_vars

\* ================================================== limiter, threads
\* rate_limit executed statement by statement by parallel threads, each
\* serving one call. A list is an object: `list_id[key]` changes when the
\* store is given another list for the key, and an append to a list that
\* is no longer in the store does not reach the store.
RateLeave == <<ticks, uuidCount, users, sessions, issued, ended, resp, limit,
               Webhook, Chat, Queue>>

\* now = time.time()
rl_enter(i, key) ==
    /\ th[i].pc = "idle"
    /\ nreq < MaxChecks
    /\ nreq' = nreq + 1
    /\ th' = [th EXCEPT ![i] = [Frame EXCEPT !.pc = "test", !.op = "check",
                                             !.key = key, !.t = now,
                                             !.after = Done(i)]]
    /\ UNCHANGED <<now, rate_limit_store, list_id, log>>
    /\ UNCHANGED RateLeave

\* if key not in rate_limit_store:
rl_test(i) ==
    /\ th[i].pc = "test"
    /\ th' = [th EXCEPT ![i].pc = IF th[i].key \in DOMAIN rate_limit_store
                                  THEN "filter" ELSE "create"]
    /\ UNCHANGED <<now, rate_limit_store, list_id, log, nreq>>
    /\ UNCHANGED RateLeave

NewList(key) == Put(list_id, key, IF key \in DOMAIN list_id THEN list_id[key] + 1 ELSE 1)

\*     rate_limit_store[key] = []
rl_create(i) ==
    /\ th[i].pc = "create"
    /\ rate_limit_store' = Put(rate_limit_store, th[i].key, <<>>)
    /\ list_id' = NewList(th[i].key)
    /\ th' = [th EXCEPT ![i].pc = "filter"]
    /\ UNCHANGED <<now, log, nreq>>
    /\ UNCHANGED RateLeave

\* [t for t in rate_limit_store[key] if now - t < window]
rl_filter(i) ==
    /\ th[i].pc = "filter"
    /\ th' = [th EXCEPT ![i].pc = "assign",
                        ![i].tmp = Prune(rate_limit_store[th[i].key], th[i].t,
                                         RATE_LIMIT_WINDOW)]
    /\ UNCHANGED <<now, rate_limit_store, list_id, log, nreq>>
    /\ UNCHANGED RateLeave

\* rate_limit_store[key] = <the filtered list>
rl_assign(i) ==
    /\ th[i].pc = "assign"
    /\ rate_limit_store' = Put(rate_limit_store, th[i].key, th[i].tmp)
    /\ list_id' = NewList(th[i].key)
    /\ th' = [th EXCEPT ![i].pc = "len"]
    /\ UNCHANGED <<now, log, nreq>>
    /\ UNCHANGED RateLeave

\* if len(rate_limit_store[key]) >= max_requests: raise HTTPException(429)
rl_len(i) ==
    /\ th[i].pc = "len"
    /\ IF Len(rate_limit_store[th[i].key]) >= limit
       THEN /\ th' = [th EXCEPT ![i] = Return(th[i], 429, "Rate limit exceeded")]
            /\ log' = Logged(th[i].key, FALSE, th[i].t)
       ELSE /\ th' = [th EXCEPT ![i].pc = "load"]
            /\ UNCHANGED log
    /\ UNCHANGED <<now, rate_limit_store, list_id, nreq>>
    /\ UNCHANGED RateLeave

\* rate_limit_store[key]   (the list that .append is called on)
rl_load(i) ==
    /\ th[i].pc = "load"
    /\ th' = [th EXCEPT ![i].pc = "append", ![i].ref = list_id[th[i].key]]
    /\ UNCHANGED <<now, rate_limit_store, list_id, log, nreq>>
    /\ UNCHANGED RateLeave

\* .append(now)
rl_append(i) ==
    /\ th[i].pc = "append"
    /\ rate_limit_store' =
          IF list_id[th[i].key] = th[i].ref
          THEN [rate_limit_store EXCEPT ![th[i].key] = Append(@, th[i].t)]
          ELSE rate_limit_store
    /\ th' = [th EXCEPT ![i] = Return(th[i], 200, "")]
    /\ log' = Logged(th[i].key, TRUE, th[i].t)
    /\ UNCHANGED <<now, list_id, nreq>>
    /\ UNCHANGED RateLeave

InitRateThreads ==
    /\ InitAuth
    /\ th = [i \in Threads |-> Frame]
    /\ list_id = Empty
    /\ InitOthers
    /\ limit \in 1 .. MaxLimit
    /\ log = [k \in RateKeys |-> <<>>]

NextRateThreads ==
    \/ \E d \in RateSteps : Tick(d)
    \/ \E i \in Threads, k \in RateKeys : rl_enter(i, k)
    \/ \E i \in Threads : rl_test(i)
    \/ \E i \in Threads : rl_create(i)
    \/ \E i \in Threads : rl_filter(i)
    \/ \E i \in Threads : rl_assign(i)
    \/ \E i \in Threads : rl_len(i)
    \/ \E i \in Threads : rl_load(i)
    \/ \E i \in Threads : rl_append(i)

SpecRateThreads == InitRateThreads /\ [][NextRateThreads]_vars

\* ============================================================= claims
\* A credential that get_current_user must accept: an access token this
\* service issued to a stored user whose expiry instant has not passed.
Valid(credentials) ==
    /\ \E r \in DOMAIN issued : issued[r].token = credentials
    /\ credentials.sub \in DOMAIN users
    /\ now <= credentials.exp
Has(r, how) == r \in DOMAIN ended /\ how \in ended[r]

\* C1: once a refresh presenting `old` has succeeded and returned `new`,
\* every later refresh presenting `old` fails; a refresh presenting `new`
\* with a valid access token succeeds while no refresh, logout or sweep has
\* ended `new`, its new token was never issued before, and after it `new`
\* is in its turn a token whose refresh fails.
C1_RefreshSingleUse ==
    [][\A r \in RefreshInputs, c \in Credentials :
          refresh_token(r, c) =>
             /\ Has(r, "rotated") => resp'.status = 401
             /\ (/\ Valid(c)
                 /\ r \in DOMAIN issued
                 /\ issued[r].by = "refresh"
                 /\ r \notin DOMAIN ended)
                  => /\ resp'.status = 200
                     /\ resp'.refresh_token \notin DOMAIN issued
                     /\ resp'.refresh_token \in DOMAIN sessions'
                     /\ r \notin DOMAIN sessions'
                     /\ "rotated" \in ended'[r]]_vars

\* A token `new` returned by a refresh was accepted once, and its replay
\* has just been refused.
C1_Witness ==
    /\ resp.op = "refresh"
    /\ resp.status = 401
    /\ resp.detail = "Invalid refresh token"
    /\ resp.cred = "issued"
    /\ Has(resp.arg, "rotated")
    /\ resp.arg \in DOMAIN issued
    /\ issued[resp.arg].by = "refresh"

\* C3: after a logout of user u, a refresh presenting a refresh token that
\* was issued to u before that logout returns an error.
C3_LogoutRevokesAll ==
    [][\A r \in RefreshInputs, c \in Credentials :
          refresh_token(r, c) /\ Has(r, "logout") => resp'.status # 200]_vars

\* u held two live sessions when it logged out, and a refresh presenting
\* one of their tokens has just been refused.
C3_Witness ==
    /\ resp.op = "refresh"
    /\ resp.status = 401
    /\ resp.cred = "issued"
    /\ Has(resp.arg, "logout")
    /\ ~Has(resp.arg, "rotated")
    /\ \E r \in DOMAIN issued :
          /\ r # resp.arg
          /\ issued[r].user_id = issued[resp.arg].user_id
          /\ ended[r] = {"logout"}

\* C5: a refresh token whose session was ended by rotation, logout or the
\* sweep never resolves to a session again and is never again accepted by
\* refresh, whatever requests follow.
C5_TerminationIsPermanent ==
    [][\A r \in DOMAIN ended :
          /\ get_session(sessions', r) = {}
          /\ \A c \in Credentials :
                refresh_token(r, c) => resp'.status # 200]_vars

\* A token the sweep removed was presented to refresh with a valid access
\* token and refused, while a session created after that token's is live.
C5_Witness ==
    /\ resp.op = "refresh"
    /\ resp.status = 401
    /\ resp.detail = "Invalid refresh token"
    /\ resp.cred = "issued"
    /\ Has(resp.arg, "sweep")
    /\ \E r \in DOMAIN sessions : r > resp.arg

\* C6: every refresh token handed out by register, login or refresh
\* resolves, until a refresh, logout or sweep ends it, to exactly one
\* session, whose user id is the user the pair was issued for (glyph
\* service: sessions are looked up by their refresh_token field).
C6_IssuedTokenResolves ==
    \A r \in DOMAIN issued \ DOMAIN ended :
        LET found == SessionCollection_Where(sessions, "refresh_token", r)
        IN  /\ Cardinality(found) = 1
            /\ \A k \in found : sessions[k]["user_id"] = issued[r].user_id

\* C6 for the text service, where sessions are keyed by refresh token.
C6_IssuedTokenResolvesText ==
    \A r \in DOMAIN issued \ DOMAIN ended :
        /\ get_session(sessions, r) = {r}
        /\ sessions[r].user_id = issued[r].user_id

\* C7: refresh never accepts a session whose age exceeds the refresh-token
\* TTL.
C7_NoSessionOlderThanTTL ==
    [][\A r \in RefreshInputs, c \in Credentials :
          refresh_token(r, c) /\ resp'.status = 200
             => now - sessions[r].created_at <= REFRESH_TOKEN_EXPIRE]_vars

\* C8 as claimed: refresh succeeds whenever the refresh token resolves to
\* a session whose owner exists, whatever access token the call carries.
C8_RefreshIgnoresAccessToken ==
    [][\A r \in RefreshInputs, c \in Credentials :
          (/\ refresh_token(r, c)
           /\ get_session(sessions, r) # {}
           /\ sessions[r].user_id \in DOMAIN users)
             => resp'.status = 200]_vars

\* C8 amended: refresh succeeds exactly when the call carries a valid
\* access token and the refresh token resolves to a session whose owner
\* exists; with an access token that is expired or no token it fails with
\* 401 "Invalid token" and leaves the session in place.
C8_RefreshNeedsValidAccessToken ==
    [][\A r \in RefreshInputs, c \in Credentials :
          refresh_token(r, c) =>
             /\ resp'.status = 200
                   <=> /\ Valid(c)
                       /\ get_session(sessions, r) # {}
                       /\ sessions[r].user_id \in DOMAIN users
             /\ ~Valid(c) => /\ resp'.status = 401
                             /\ resp'.detail = "Invalid token"
                             /\ sessions' = sessions]_vars

\* A refresh carrying an issued but expired access token was refused
\* although its refresh token resolves to a session.
C8_Witness ==
    /\ resp.op = "refresh"
    /\ resp.status = 401
    /\ resp.detail = "Invalid token"
    /\ resp.cred = "issued"
    /\ get_session(sessions, resp.arg) # {}
    /\ now - sessions[resp.arg].created_at <= REFRESH_TOKEN_EXPIRE

\* Two requests are concurrent when neither began after the other was done.
Concurrent(i, j) == i \notin th[j].after /\ j \notin th[i].after

\* C2: of two concurrent refresh requests that present the same live
\* refresh token with valid access tokens, exactly one returns a new pair,
\* the other fails with 401 "Invalid refresh token", and exactly one new
\* session exists afterwards.
C2_RaceHasOneWinner ==
    \A i, j \in Threads :
        (/\ i # j
         /\ th[i].pc = "done" /\ th[j].pc = "done"
         /\ th[i].op = "refresh" /\ th[j].op = "refresh"
         /\ th[i].data = th[j].data
         /\ th[i].live /\ th[j].live
         /\ th[i].user # NoId /\ th[j].user # NoId
         /\ Concurrent(i, j))
          => /\ \/ /\ th[i].status = 200
                   /\ th[j].status = 401
                   /\ th[j].detail = "Invalid refresh token"
                \/ /\ th[j].status = 200
                   /\ th[i].status = 401
                   /\ th[i].detail = "Invalid refresh token"
             /\ Cardinality({th[i].new_rt, th[j].new_rt} \ {NoId}) = 1

\* C4: once a refresh presenting a live token of user u and a logout of u
\* that began while that refresh was not yet done have both completed, the
\* logout has succeeded and the registry holds neither the presented
\* token's session nor a session minted by that refresh.
C4_RefreshLogoutLinearizable ==
    \A i, j \in Threads :
        (/\ th[i].pc = "done" /\ th[j].pc = "done"
         /\ th[i].op = "refresh" /\ th[j].op = "logout"
         /\ th[i].live
         /\ th[i].user # NoId /\ th[j].user # NoId
         /\ th[i].data \in th[j].known
         /\ i \notin th[j].after)
          => /\ th[j].status = 200
             /\ get_session(sessions, th[i].data) = {}
             /\ th[i].new_rt = NoId \/ get_session(sessions, th[i].new_rt) = {}

\* The checks on `key` that returned Allow within the window that ends at t.
Recent(key, t) ==
    {i \in 1 .. Len(log[key]) :
        log[key][i].ok /\ t - log[key][i].t < RATE_LIMIT_WINDOW}

\* C9: a check returns Allow exactly when fewer than max_requests checks on
\* its key returned Allow within the window that ends now: so from an empty
\* bucket the first N checks are allowed, the next one made within the
\* window of N allowed checks is denied, and a check made once the window
\* has elapsed since the allowed checks is allowed.
C9_SlidingWindow ==
    [][\A k \in RateKeys :
          check(k) =>
             /\ resp'.status = 200 <=> Cardinality(Recent(k, now)) < limit
             /\ resp'.status = 429 <=> Cardinality(Recent(k, now)) >= limit
             /\ Len(log[k]) < limit => resp'.status = 200
             /\ Recent(k, now) = {} => resp'.status = 200]_vars

\* On one key: N >= 2 checks allowed, the next denied, and then, a window
\* after the N-th, a check allowed.
C9_Witness ==
    \E k \in RateKeys :
        /\ limit >= 2
        /\ Len(log[k]) = limit + 2
        /\ \A i \in 1 .. limit : log[k][i].ok
        /\ ~log[k][limit + 1].ok
        /\ log[k][limit + 1].t - log[k][1].t < RATE_LIMIT_WINDOW
        /\ log[k][limit + 2].ok
        /\ log[k][limit + 2].t - log[k][limit].t >= RATE_LIMIT_WINDOW
        /\ resp.op = "check" /\ resp.status = 200

\* C10: once the concurrent checks on a key, all made within one window,
\* have returned, the bucket holds the timestamp of every check that
\* returned Allow, holds no more timestamps than checks returned Allow,
\* and no more than max_requests checks returned Allow.
C10_ChecksAtomic ==
    \A k \in RateKeys :
        LET calls == {i \in Threads : th[i].op = "check" /\ th[i].key = k}
            allowed == {i \in calls : th[i].status = 200}
        IN  (/\ calls # {}
             /\ \A i \in calls : th[i].pc = "done"
             /\ \A i, j \in calls : th[i].t - th[j].t < RATE_LIMIT_WINDOW)
              => /\ k \in DOMAIN rate_limit_store
                 /\ \A i \in allowed :
                       \E n \in 1 .. Len(rate_limit_store[k]) :
                           rate_limit_store[k][n] = th[i].t
                 /\ Len(rate_limit_store[k]) <= Cardinality(allowed)
                 /\ Cardinality(allowed) <= limit

\* The bucket of `key` as the limiter reads it ([] when the key is new).
Bucket(key) == IF key \in DOMAIN rate_limit_store THEN rate_limit_store[key] ELSE <<>>

\* C11: a check that returns Deny records nothing: after it the key's
\* bucket holds exactly the timestamps younger than the window that it held
\* before, in their order, and the other buckets are as they were.
C11_DenyRecordsNothing ==
    [][\A k \in RateKeys :
          (check(k) /\ resp'.status = 429) =>
             /\ rate_limit_store'[k] =
                   SelectSeq(Bucket(k), LAMBDA x : now - x < RATE_LIMIT_WINDOW)
             /\ \A o \in DOMAIN rate_limit_store \ {k} :
                   rate_limit_store'[o] = rate_limit_store[o]]_vars

\* A check was denied at an instant later than every recorded timestamp,
\* and the bucket then holds as many timestamps as checks were allowed
\* within the window.
C11_Witness ==
    \E k \in RateKeys :
        /\ resp.op = "check" /\ resp.status = 429
        /\ Len(log[k]) >= 2
        /\ ~log[k][Len(log[k])].ok
        /\ log[k][Len(log[k])].t = now
        /\ \A n \in 1 .. Len(rate_limit_store[k]) : rate_limit_store[k][n] < now
        /\ Len(rate_limit_store[k]) = limit

\* C12: a check made at least a window after the last allowed check on its
\* key returns Allow, however many checks on the key were denied before,
\* and the bucket then holds that check's timestamp alone.
C12_DenialRecoverable ==
    [][\A k \in RateKeys :
          (/\ check(k)
           /\ \A i \in 1 .. Len(log[k]) :
                 log[k][i].ok => now - log[k][i].t >= RATE_LIMIT_WINDOW)
            => /\ resp'.status = 200
               /\ rate_limit_store'[k] = <<now>>]_vars

\* After two denied checks on a key, the check made exactly a window after
\* the key's last allowed check was allowed.
C12_Witness ==
    \E k \in RateKeys :
        LET n == Len(log[k])
        IN  /\ n >= 4
            /\ log[k][n].ok /\ log[k][n].t = now
            /\ resp.op = "check" /\ resp.status = 200
            /\ ~log[k][n - 1].ok /\ ~log[k][n - 2].ok
            /\ \E i \in 1 .. n - 3 :
                  /\ log[k][i].ok
                  /\ now - log[k][i].t = RATE_LIMIT_WINDOW
                  /\ \A j \in i + 1 .. n - 1 : ~log[k][j].ok

\* C13 as claimed: in every state every timestamp held in a bucket is
\* younger than the window.
C13_BucketAlwaysFresh ==
    \A k \in DOMAIN rate_limit_store :
        \A n \in 1 .. Len(rate_limit_store[k]) :
            now - rate_limit_store[k][n] < RATE_LIMIT_WINDOW

\* C13 amended: when a check on a key returns, every timestamp in that
\* key's bucket is younger than the window (a bucket is pruned by the
\* checks on its key, not by the passing of time).
C13_BucketFreshAfterCheck ==
    [][\A k \in RateKeys :
          check(k) =>
             \A n \in 1 .. Len(rate_limit_store'[k]) :
                 now - rate_limit_store'[k][n] < RATE_LIMIT_WINDOW]_vars

\* A check has just pruned a timestamp that its bucket had kept for a whole
\* window or longer.
C13_Witness ==
    \E k \in RateKeys :
        /\ resp.op = "check"
        /\ Len(log[k]) >= 2
        /\ log[k][Len(log[k])].t = now
        /\ \E i \in 1 .. Len(log[k]) - 1 :
              /\ log[k][i].ok
              /\ now - log[k][i].t >= RATE_LIMIT_WINDOW
        /\ \A n \in 1 .. Len(rate_limit_store[k]) :
              now - rate_limit_store[k][n] < RATE_LIMIT_WINDOW

\* The allowed checks on `key` made in the interval [t, t + window).
AllowedFrom(key, t) ==
    {j \in 1 .. Len(log[key]) :
        /\ log[key][j].ok
        /\ log[key][j].t >= t
        /\ log[key][j].t - t < RATE_LIMIT_WINDOW}

\* C14: in every interval of one window's length (closed at its start, open
\* at its end) at most max_requests checks on a key return Allow. An
\* interval that holds the most allowed checks starts at one of them.
C14_AtMostMaxPerWindow ==
    \A k \in RateKeys :
        \A i \in 1 .. Len(log[k]) :
            log[k][i].ok => Cardinality(AllowedFrom(k, log[k][i].t)) <= limit

\* A window that holds max_requests >= 2 allowed checks made at two
\* instants, and a check denied inside it.
C14_Witness ==
    \E k \in RateKeys :
        \E i \in 1 .. Len(log[k]) :
            /\ limit >= 2
            /\ log[k][i].ok
            /\ Cardinality(AllowedFrom(k, log[k][i].t)) = limit
            /\ \E j \in AllowedFrom(k, log[k][i].t) : log[k][j].t > log[k][i].t
            /\ \E d \in 1 .. Len(log[k]) :
                  /\ ~log[k][d].ok
                  /\ log[k][d].t - log[k][i].t < RATE_LIMIT_WINDOW
                  /\ log[k][d].t >= log[k][i].t

\* C15: an access token returned at t0 with expires_in = E is accepted by
\* authenticate at t0 and rejected at every instant later than t0 + E
\* (glyph service: authenticate is get_current_user on the bearer token).
C15_AccessTokenLifetime ==
    \A r \in DOMAIN issued :
        LET p == issued[r]
            auth == get_current_user_glyph(p.token, now)
        IN  /\ now = p.at => auth.status = 200
            /\ now > p.at + p.expires_in => auth.status # 200

\* C15 for the text service.
C15_AccessTokenLifetimeText ==
    \A r \in DOMAIN issued :
        LET p == issued[r]
            auth == get_current_user(p.token, users, now)
        IN  /\ now = p.at => auth.status = 200
            /\ now > p.at + p.expires_in => auth.status # 200

\* C16: authenticate answers every failing credential (a string that is
\* no token, a token signed with another key, an expired token, a token
\* without a subject, a valid token whose subject is not in the user store)
\* with one and the same status and detail.
C16_OneAuthError ==
    [][\A c \in GuardTokens :
          (get_me(c) /\ resp'.status # 200)
             => /\ resp'.status = 401
                /\ resp'.detail = "Invalid token"]_vars

\* The role of the user a credential authenticates ("" when it does not).
RoleOf(credentials) ==
    LET auth == get_current_user(credentials, users, now)
    IN  IF auth.status = 200 THEN users[auth.user].role ELSE ""

\* C17: the admin listing called with a valid token of a user whose role is
\* not admin answers 403 "Admin access required", returns no list and does
\* not reach the limiter; it answers 200 only to a valid token of a user
\* whose role is admin.
C17_AdminOnly ==
    [][\A c \in GuardTokens, h \in Hosts :
          list_users(c, h) =>
             /\ (RoleOf(c) # "" /\ RoleOf(c) # "admin")
                  => /\ resp'.status = 403
                     /\ resp'.detail = "Admin access required"
                     /\ resp'.user = NoId
             /\ resp'.status = 200 <=> RoleOf(c) = "admin"]_vars

\* A user of role user, holding a valid token, has just been refused the
\* listing that the store's admin was given before.
C17_Witness ==
    /\ resp.op = "list_users"
    /\ resp.status = 403
    /\ Key("admin_users", "h1") \in DOMAIN rate_limit_store
    /\ Len(rate_limit_store[Key("admin_users", "h1")]) = 1
    /\ \E u \in DOMAIN users : users[u].role = "admin"
    /\ \E u \in DOMAIN users : users[u].role = "user"

\* C19: the admin listing authenticates, then authorizes, then rate-limits:
\* a request that fails authentication gets the authentication error (401),
\* a request of a valid non-admin token gets 403, and neither adds a
\* timestamp to the admin-listing bucket; only a request that passed both
\* guards reaches the limiter, which records it.
C19_GuardsInOrder ==
    [][\A c \in GuardTokens, h \in Hosts :
          list_users(c, h) =>
             LET auth == get_current_user(c, users, now)
                 bucket == Key("admin_users", h)
             IN  /\ auth.status # 200
                      => /\ resp'.status = 401
                         /\ resp'.detail = auth.detail
                         /\ rate_limit_store' = rate_limit_store
                 /\ (auth.status = 200 /\ RoleOf(c) # "admin")
                      => /\ resp'.status = 403
                         /\ rate_limit_store' = rate_limit_store
                 /\ RoleOf(c) = "admin"
                      => /\ bucket \in DOMAIN rate_limit_store'
                         /\ Len(rate_limit_store'[bucket]) >= 1
                         /\ rate_limit_store'[bucket][Len(rate_limit_store'[bucket])] = now]_vars

\* After one listing by an admin, a request carrying a well-formed token
\* that does not authenticate was refused with 401, and the bucket still
\* holds the admin's timestamp alone.
C19_Witness ==
    /\ resp.op = "list_users"
    /\ resp.status = 401
    /\ resp.cred = "issued"
    /\ nreq = 2
    /\ Key("admin_users", "h1") \in DOMAIN rate_limit_store
    /\ Len(rate_limit_store[Key("admin_users", "h1")]) = 1

\* Whether the limiter of a route admits a request made now.
Admits(limiter, subject, max_requests) ==
    rate_limit(rate_limit_store, Key(limiter, subject), max_requests,
               RATE_LIMIT_WINDOW, now).ok

\* C18: a register that the limiter admits, with an email not in the user
\* store, creates one user and returns 201 with an access token, a refresh
\* token and expires_in = 3600; a login that the limiter admits, with the
\* email of a stored user, succeeds with the password the user registered
\* and fails with 401 "Invalid credentials" with any other.
C18_RegisterThenLogin ==
    [][/\ \A e \in Emails, n \in Names, p \in Registered, h \in Hosts :
             (/\ register(e, n, p, h)
              /\ find_user_by_email(users, e) = NoId
              /\ Admits("register", h, REGISTER_LIMIT))
               => /\ resp'.status = 201
                  /\ resp'.token.wellformed
                  /\ resp'.refresh_token # NoId
                  /\ resp'.expires_in = 3600
                  /\ Cardinality(DOMAIN users') = Cardinality(DOMAIN users) + 1
                  /\ find_user_by_email(users', e) = resp'.user
                  /\ resp'.user \notin DOMAIN users
       /\ \A e \in Emails, p \in Passwords, h \in Hosts :
             (/\ login(e, p, h)
              /\ find_user_by_email(users, e) # NoId
              /\ Admits("login", h, LOGIN_LIMIT))
               => IF p = users[find_user_by_email(users, e)].password_hash.of
                  THEN /\ resp'.status = 200
                       /\ resp'.token.wellformed
                       /\ resp'.refresh_token # NoId
                       /\ resp'.expires_in = 3600
                       /\ resp'.user = find_user_by_email(users, e)
                  ELSE /\ resp'.status = 401
                       /\ resp'.detail = "Invalid credentials"
                       /\ UNCHANGED <<users, sessions, issued>>]_vars

\* The one registered user has logged in with its password, and a login
\* with another password has just been refused.
C18_Witness ==
    /\ resp.op = "login"
    /\ resp.status = 401
    /\ resp.detail = "Invalid credentials"
    /\ Cardinality(DOMAIN users) = 1
    /\ \E r \in DOMAIN issued : issued[r].by = "register"
    /\ \E r \in DOMAIN issued : issued[r].by = "login"

\* C20: database.delete_session(token) removes the session keyed by the
\* token and nothing else: every other session, the other sessions of the
\* same user among them, stays as it was, and a token that has no session
\* leaves the registry unchanged.
C20_DeleteRemovesOne ==
    [][\A i \in Threads :
          refresh_delete_session(i) =>
             LET d == th[i].data
             IN  /\ DOMAIN sessions' = DOMAIN sessions \ {d}
                 /\ \A k \in DOMAIN sessions' : sessions'[k] = sessions[k]
                 /\ d \notin DOMAIN sessions => sessions' = sessions]_vars

\* A refresh has just deleted the session of its token, and another
\* session of the same user is still in the registry.
C20_Witness ==
    \E i \in Threads :
        /\ th[i].pc = "sign_token"
        /\ th[i].live
        /\ th[i].data \notin DOMAIN sessions
        /\ \E k \in DOMAIN sessions : sessions[k].user_id = th[i].owner

\* C21: delete_sessions_for_user(u), as logout calls it, removes every
\* session whose owner is u and leaves every session of any other user in
\* the registry with its content unchanged.
C21_DeleteAllOfUser ==
    [][\A c \in Credentials :
          (logout(c) /\ resp'.status = 200) =>
             LET u == resp'.user
             IN  /\ DOMAIN sessions' = {k \in DOMAIN sessions : sessions[k].user_id # u}
                 /\ \A k \in DOMAIN sessions' : sessions'[k] = sessions[k]]_vars

\* A logout has just removed two live sessions of its user while a session
\* of another user stays in the registry.
C21_Witness ==
    /\ resp.op = "logout"
    /\ resp.status = 200
    /\ Cardinality({r \in DOMAIN issued :
                       /\ issued[r].user_id = resp.user
                       /\ r \in DOMAIN ended
                       /\ ended[r] = {"logout"}}) >= 2
    /\ \E k \in DOMAIN sessions : sessions[k].user_id # resp.user

C22_SweepExactText ==
    [][cleanup_expired_sessions =>
          LET aged == {k \in DOMAIN sessions :
                          now - sessions[k].created_at > REFRESH_TOKEN_EXPIRE}
          IN  /\ DOMAIN sessions' = DOMAIN sessions \ aged
              /\ \A k \in DOMAIN sessions' : sessions'[k] = sessions[k]
              /\ resp'.removed = aged]_vars

\* C23: the sweep is idempotent: a sweep that directly follows a sweep, with
\* no clock advance and no other request in between, removes nothing,
\* returns the empty list and leaves the registry as the first one left it.
C23_SweepIdempotent ==
    [][(/\ cleanup_expired_sessions
        /\ resp.op = "cleanup"
        /\ resp.at = now)
          => /\ resp'.removed = {}
             /\ sessions' = sessions]_vars

\* One register, then two sweeps at one instant (the clock had made both
\* its steps before the first): the first removed the session, the second
\* has just returned the empty list.
C23_Witness ==
    /\ resp.op = "cleanup"
    /\ resp.at = now
    /\ resp.removed = {}
    /\ nreq = 3
    /\ uuidCount = 2
    /\ ticks = 2
    /\ \E r \in DOMAIN ended : ended[r] = {"sweep"}

\* C24: a sweep that runs on its own thread next to refresh and logout
\* requests (no other sweep is running) returns without an error, and every
\* session it removed was older than REFRESH_TOKEN_EXPIRE when it ran.
C24_SweepSafeConcurrently ==
    \A i \in Threads :
        (/\ th[i].op = "sweep"
         /\ th[i].pc = "done"
         /\ \A j \in Threads \ {i} : th[j].op # "sweep")
          => /\ th[i].status = 200
             /\ \A k \in th[i].known :
                   k \in DOMAIN issued /\ th[i].t - issued[k].at > REFRESH_TOKEN_EXPIRE

\* C24 with every handler, the sweep included, as one event-loop step: the
\* sweep returns and removes only sessions older than REFRESH_TOKEN_EXPIRE.
C24_SweepSafeEventLoop ==
    [][cleanup_expired_sessions =>
          /\ resp'.status = 200
          /\ \A k \in resp'.removed :
                k \in DOMAIN issued /\ now - issued[k].at > REFRESH_TOKEN_EXPIRE]_vars

\* C25: a register that the limiter admits, with an email that a stored
\* user already has, answers 409 "Email already registered" and leaves the
\* user store and the session registry unchanged; and in every state no
\* two stored users have the same email.
C25_EmailTaken ==
    /\ [](\A a, b \in DOMAIN users : users[a].email = users[b].email => a = b)
    /\ [][\A e \in Emails, n \in Names, p \in Registered, h \in Hosts :
             (/\ register(e, n, p, h)
              /\ \E id \in DOMAIN users : users[id].email = e
              /\ Admits("register", h, REGISTER_LIMIT))
               => /\ resp'.status = 409
                  /\ resp'.detail = "Email already registered"
                  /\ resp'.token = NoToken
                  /\ resp'.refresh_token = NoId
                  /\ UNCHANGED <<users, sessions, issued>>]_vars

\* A register with the email of a stored user that holds a session has
\* just been refused with the conflict error.
C25_Witness ==
    /\ resp.op = "register"
    /\ resp.status = 409
    /\ \E k \in DOMAIN sessions : sessions[k].user_id \in DOMAIN users

\* C29: a login that the limiter admits and that fails, because no stored
\* user has the email or because the password does not match, answers 401
\* "Invalid credentials" in both cases, changes no user (so no last_login),
\* creates no session and returns no token.
C29_FailedLoginUniform ==
    [][\A e \in Emails, p \in Passwords, h \in Hosts :
          (/\ login(e, p, h)
           /\ Admits("login", h, LOGIN_LIMIT)
           /\ \/ \A id \in DOMAIN users : users[id].email # e
              \/ \E id \in DOMAIN users :
                    users[id].email = e /\ users[id].password_hash.of # p)
            => /\ resp'.status = 401
               /\ resp'.detail = "Invalid credentials"
               /\ resp'.token = NoToken
               /\ resp'.refresh_token = NoId
               /\ UNCHANGED <<users, sessions, issued, uuidCount>>]_vars

\* Both emails are registered, so the login that has just failed named a
\* stored user and gave a password that does not match; an earlier login
\* failed when no user was stored.
C29_Witness ==
    /\ resp.op = "login"
    /\ resp.status = 401
    /\ resp.detail = "Invalid credentials"
    /\ nreq = MaxReqs
    /\ Cardinality(DOMAIN users) = 2
    /\ \E k \in DOMAIN rate_limit_store :
          k = Key("login", "h1") /\ Len(rate_limit_store[k]) = 2

\* The store with every bucket but `key`'s taken away.
Only(key) == [k \in DOMAIN rate_limit_store \cap {key} |-> rate_limit_store[k]]

\* C26: a check on a key gives the result, and leaves in the key's bucket
\* the content, that it would give and leave if the store held no other
\* bucket, and it leaves every other key's bucket as it was.
C26_BucketsIndependent ==
    [][\A key \in RateKeys :
          check(key) =>
             LET alone == rate_limit(Only(key), key, limit, RATE_LIMIT_WINDOW, now)
             IN  /\ (resp'.status = 200) = alone.ok
                 /\ rate_limit_store'[key] = alone.store[key]
                 /\ DOMAIN rate_limit_store' = DOMAIN rate_limit_store \cup {key}
                 /\ \A other \in DOMAIN rate_limit_store \ {key} :
                       rate_limit_store'[other] = rate_limit_store[other]]_vars

\* The latest check on one key was denied and that key's bucket is still
\* full, and a check on the other key has just been allowed.
C26_Witness ==
    /\ resp.op = "check"
    /\ resp.status = 200
    /\ \E key \in RateKeys :
          /\ Len(log[key]) > 0
          /\ ~log[key][Len(log[key])].ok
          /\ ~rate_limit(rate_limit_store, key, limit, RATE_LIMIT_WINDOW, now).ok
          /\ \E other \in RateKeys \ {key} :
                /\ Len(log[other]) > 0
                /\ log[other][Len(log[other])] = [t |-> now, ok |-> TRUE]

\* C27: a register or a login that the limiter denies answers 429 "Rate
\* limit exceeded" and does nothing else: it creates no user, changes no
\* last_login, creates no session, draws no identifier and returns no
\* token.
C27_DeniedDoesNothing ==
    [][/\ \A e \in Emails, n \in Names, p \in Registered, h \in Hosts :
             (register(e, n, p, h) /\ ~Admits("register", h, REGISTER_LIMIT))
               => /\ resp'.status = 429
                  /\ resp'.detail = "Rate limit exceeded"
                  /\ resp'.token = NoToken
                  /\ resp'.refresh_token = NoId
                  /\ UNCHANGED <<users, sessions, issued, uuidCount>>
       /\ \A e \in Emails, p \in Passwords, h \in Hosts :
             (login(e, p, h) /\ ~Admits("login", h, LOGIN_LIMIT))
               => /\ resp'.status = 429
                  /\ resp'.detail = "Rate limit exceeded"
                  /\ resp'.token = NoToken
                  /\ resp'.refresh_token = NoId
                  /\ UNCHANGED <<users, sessions, issued, uuidCount>>]_vars

\* A login has just been denied while the bucket of the register limiter
\* is full as well, and the store holds the one user it held at the start.
C27_Witness ==
    /\ resp.op = "login"
    /\ resp.status = 429
    /\ Len(Bucket(Key("login", "h1"))) = LOGIN_LIMIT
    /\ Len(Bucket(Key("register", "h1"))) = REGISTER_LIMIT
    /\ ~Admits("register", "h1", REGISTER_LIMIT)
    /\ nreq = MaxReqs
    /\ DOMAIN users = {uuid4(0)}

\* C28: get_current_user and require_admin only read: a request to
\* /auth/me, whatever its outcome, leaves the user store, the session
\* registry and every bucket unchanged; a request to the admin listing
\* leaves the user store and the registry unchanged, leaves every bucket
\* unchanged when a guard refuses it, and otherwise changes only the
\* bucket that the handler's own limiter call writes.
C28_GuardsReadOnly ==
    [][/\ \A c \in GuardTokens :
             get_me(c) => UNCHANGED <<users, sessions, rate_limit_store>>
       /\ \A c \in GuardTokens, h \in Hosts :
             list_users(c, h) =>
                /\ UNCHANGED <<users, sessions>>
                /\ require_admin(c, users, now).status # 200
                     => UNCHANGED rate_limit_store
                /\ \A k \in DOMAIN rate_limit_store \ {Key("admin_users", h)} :
                      /\ k \in DOMAIN rate_limit_store'
                      /\ rate_limit_store'[k] = rate_limit_store[k]]_vars

\* A valid token has just been authenticated by /auth/me while the store
\* holds users, a session and the timestamp of an earlier admin listing.
C28_Witness ==
    /\ resp.op = "get_me"
    /\ resp.status = 200
    /\ resp.user \in DOMAIN users
    /\ DOMAIN sessions # {}
    /\ Len(Bucket(Key("admin_users", "h1"))) >= 1

C30_RefreshMintsForOwnerText ==
    [][\A r \in RefreshInputs, c \in Credentials :
          (refresh_token(r, c) /\ resp'.status = 200) =>
             LET owner == sessions[r].user_id
             IN  /\ resp'.token.sub = owner
                 /\ resp'.token.role = users[owner].role
                 /\ resp'.token.email = users[owner].email]_vars

\* C31: in every state every stored user has role "user", and no request
\* to the admin listing, whatever token it carries, passes require_admin:
\* it is refused with 401 or 403.
C31_NoAdminEver ==
    /\ [](\A u \in DOMAIN users : users[u].role = "user")
    /\ [][\A c \in Credentials, h \in Hosts :
             list_users(c, h) =>
                /\ resp'.status \in {401, 403}
                /\ require_admin(c, users, now).status # 200]_vars

\* Two users are stored, one of them has logged in since it registered,
\* and the listing has just been refused to a valid token with 403.
C31_Witness ==
    /\ resp.op = "list_users"
    /\ resp.status = 403
    /\ Cardinality(DOMAIN users) = 2
    /\ \E u \in DOMAIN users : users[u].last_login # -1

\* The same for the tagged service: every stored user has role "user" and
\* the listing is refused to every token.
C31_NoAdminEverGlyph ==
    /\ [](\A u \in DOMAIN users : users[u].role = "user")
    /\ [][\A c \in Credentials :
             list_users_glyph(c) =>
                /\ resp'.status \in {401, 403}
                /\ require_admin_glyph(c, now).status # 200]_vars

\* C32: a logout leaves the user store and every bucket unchanged, and
\* get_current_user gives for every access token issued before the logout
\* the result after it that it gave before it.
C32_LogoutOnlySessions ==
    [][\A c \in Credentials :
          logout(c) =>
             /\ UNCHANGED <<users, rate_limit_store>>
             /\ \A r \in DOMAIN issued :
                   get_current_user(issued[r].token, users', now')
                      = get_current_user(issued[r].token, users, now)]_vars

\* A logout has just removed a session of its user, and the access token
\* that was issued with that session still authenticates.
C32_Witness ==
    /\ resp.op = "logout"
    /\ resp.status = 200
    /\ \E r \in DOMAIN issued :
          /\ issued[r].user_id = resp.user
          /\ ended[r] = {"logout"}
          /\ get_current_user(issued[r].token, users, now).status = 200
    /\ rate_limit_store # Empty

\* The same for the tagged service, whose get_current_user reads the token
\* alone.
C32_LogoutOnlySessionsGlyph ==
    [][\A c \in Credentials :
          logout_glyph(c) =>
             /\ UNCHANGED <<users, rate_limit_store>>
             /\ \A r \in DOMAIN issued :
                   get_current_user_glyph(issued[r].token, now')
                      = get_current_user_glyph(issued[r].token, now)]_vars

\* ===================================================================
\* The webhook processor (02-webhook-processor.py).  Its routes are
\* `async def` without a suspension point: one request is one step.
\* ===================================================================
MaxHooks == 3
RATE_LIMIT == 1000
RATE_WINDOW == 60
API_KEYS == {"test-key-1", "test-key-2"}

\* The X-API-Key header of a request ("" when it is missing).
ApiKeyHeaders == API_KEYS \cup {""}
\* Payloads: the event and its data, a dict of which the handlers read
\* payment_id and customer_id, and the routes of the glyph sample id (""
\* where the dict has no such key).
Data(payment_id, customer_id) ==
    [payment_id |-> payment_id, customer_id |-> customer_id,
     id |-> IF payment_id # "" THEN payment_id ELSE customer_id]
Payloads ==
    {[event |-> "payment.succeeded", data |-> Data("p1", "")],
     [event |-> "payment.failed", data |-> Data("p1", "")],
     [event |-> "customer.created", data |-> Data("", "c1")],
     [event |-> "ping", data |-> Data("", "")]}

verify_api_key(api_key) ==
    IF api_key = "" \/ api_key \notin API_KEYS
    THEN [status |-> 401, detail |-> "Invalid API key"]
    ELSE [status |-> 200, detail |-> ""]

\* check_rate_limit(api_key) of the webhook processor.
webhook_check_rate_limit(store, api_key, t) ==
    LET had  == IF api_key \in DOMAIN store THEN store[api_key] ELSE <<>>
        kept == SelectSeq(had, LAMBDA x : t - x < RATE_WINDOW)
    IN  IF Len(kept) >= RATE_LIMIT
        THEN [ok |-> FALSE, store |-> Put(store, api_key, kept)]
        ELSE [ok |-> TRUE, store |-> Put(store, api_key, Append(kept, t))]

\* {**payments.get(payment_id, {}), "status": ...}: status is the only
\* field a payment record ever gets.
handle_payment_succeeded(ps, data) ==
    IF data.payment_id # ""
    THEN Put(ps, data.payment_id, [status |-> "completed"])
    ELSE ps
handle_payment_failed(ps, data) ==
    IF data.payment_id # ""
    THEN Put(ps, data.payment_id, [status |-> "failed"])
    ELSE ps
handle_customer_created(cs, data) ==
    IF data.customer_id # "" THEN Put(cs, data.customer_id, data) ELSE cs

Logged_event(id, source, payload, t) ==
    [id |-> id, source |-> source, event |-> payload.event,
     data |-> payload.data, logged_at |-> t]

\* A variant that logs the event before it asks the limiter.
stripe_webhook_LogFirst(payload, api_key) ==
    LET auth == verify_api_key(api_key)
        rl == webhook_check_rate_limit(rate_limit_store, api_key, now)
        event_id == uuid4(uuidCount)
    IN  /\ nreq < MaxHooks
        /\ nreq' = nreq + 1
        /\ UNCHANGED <<now, ticks, Auth, Chat, Queue>>
        /\ IF auth.status # 200
           THEN /\ resp' = Reply("stripe_webhook", auth.status, auth.detail, NoId)
                /\ UNCHANGED <<uuidCount, rate_limit_store, Webhook>>
           ELSE /\ rate_limit_store' = rl.store
                /\ uuidCount' = event_id
                /\ webhook_logs' = Append(webhook_logs,
                                     Logged_event(event_id, "stripe", payload, now))
                /\ IF ~rl.ok
                   THEN /\ resp' = Reply("stripe_webhook", 429,
                                         "Rate limit exceeded", NoId)
                        /\ UNCHANGED <<payments, customers>>
                   ELSE /\ payments' =
                             IF payload.event = "payment.succeeded"
                             THEN handle_payment_succeeded(payments, payload.data)
                             ELSE IF payload.event = "payment.failed"
                             THEN handle_payment_failed(payments, payload.data)
                             ELSE payments
                        /\ customers' =
                             IF payload.event = "customer.created"
                             THEN handle_customer_created(customers, payload.data)
                             ELSE customers
                        /\ resp' = Reply("stripe_webhook", 200, "", event_id)

stripe_webhook(payload, api_key) ==
    LET auth == verify_api_key(api_key)
        rl == webhook_check_rate_limit(rate_limit_store, api_key, now)
        event_id == uuid4(uuidCount)
    IN  /\ nreq < MaxHooks
        /\ nreq' = nreq + 1
        /\ UNCHANGED <<now, ticks, Auth, Chat, Queue>>
        /\ IF auth.status # 200
           THEN /\ resp' = Reply("stripe_webhook", auth.status, auth.detail, NoId)
                /\ UNCHANGED <<uuidCount, rate_limit_store, Webhook>>
           ELSE /\ rate_limit_store' = rl.store
                /\ IF ~rl.ok
                   THEN /\ resp' = Reply("stripe_webhook", 429,
                                         "Rate limit exceeded", NoId)
                        /\ UNCHANGED <<uuidCount, Webhook>>
                   ELSE /\ uuidCount' = event_id
                        /\ webhook_logs' = Append(webhook_logs,
                                     Logged_event(event_id, "stripe", payload, now))
                        /\ payments' =
                             IF payload.event = "payment.succeeded"
                             THEN handle_payment_succeeded(payments, payload.data)
                             ELSE IF payload.event = "payment.failed"
                             THEN handle_payment_failed(payments, payload.data)
                             ELSE payments
                        /\ customers' =
                             IF payload.event = "customer.created"
                             THEN handle_customer_created(customers, payload.data)
                             ELSE customers
                        /\ resp' = Reply("stripe_webhook", 200, "", event_id)

github_webhook(payload, api_key) ==
    LET auth == verify_api_key(api_key)
        event_id == uuid4(uuidCount)
    IN  /\ nreq < MaxHooks
        /\ nreq' = nreq + 1
        /\ UNCHANGED <<now, ticks, Auth, Chat, Queue>>
        /\ UNCHANGED <<rate_limit_store, payments, customers>>
        /\ IF auth.status # 200
           THEN /\ resp' = Reply("github_webhook", auth.status, auth.detail, NoId)
                /\ UNCHANGED <<uuidCount, webhook_logs>>
           ELSE /\ uuidCount' = event_id
                /\ webhook_logs' = Append(webhook_logs,
                                     Logged_event(event_id, "github", payload, now))
                /\ resp' = Reply("github_webhook", 200, "", event_id)

\* The state after n stripe requests with one key at time 0, the first a
\* failed payment and the others pings, has n timestamps in the key's
\* bucket and n logged events.
InitWebhook ==
    /\ now = 0
    /\ ticks = 0
    /\ nreq = 0
    /\ resp = NoResp
    /\ users = Empty
    /\ sessions = Empty
    /\ issued = Empty
    /\ ended = Empty
    /\ th = Empty
    /\ list_id = Empty
    /\ limit = 0
    /\ log = Empty
    /\ connections = <<>>
    /\ ws = Empty
    /\ sent = Empty
    /\ queues = Empty
    /\ proc = Empty
    /\ enqueued = Empty
    /\ handled = <<>>
    /\ \E n \in {RATE_LIMIT - 1, RATE_LIMIT} :
          /\ uuidCount = n
          /\ rate_limit_store = Put(Empty, "test-key-1", [i \in 1 .. n |-> 0])
          /\ webhook_logs =
                [i \in 1 .. n |->
                    Logged_event(i, "stripe",
                        IF i = 1
                        THEN [event |-> "payment.failed", data |-> Data("p1", "")]
                        ELSE [event |-> "ping", data |-> Data("", "")], 0)]
    /\ payments = handle_payment_failed(Empty, Data("p1", ""))
    /\ customers = Empty

NextWebhook ==
    \/ \E d \in {RATE_WINDOW - 1, RATE_WINDOW} : Tick(d)
    \/ \E p \in Payloads, k \in ApiKeyHeaders : stripe_webhook(p, k)
    \/ \E k \in ApiKeyHeaders :
          github_webhook([event |-> "push", data |-> Data("", "")], k)

SpecWebhook == InitWebhook /\ [][NextWebhook]_vars

\* ------------------------------ the glyph sample of the webhook processor
\* Its log is a dict and its limiter a dependency of the route, resolved
\* before the body runs; verify_api_key admits every key that is not empty.
RATE_LIMIT_MAX_STRIPE == 1000

check_rate_limit_stripe(store, api_key, t) ==
    LET had  == IF api_key \in DOMAIN store THEN store[api_key] ELSE <<>>
        kept == SelectSeq(had, LAMBDA x : t - x < RATE_LIMIT_WINDOW)
    IN  IF Len(kept) >= RATE_LIMIT_MAX_STRIPE
        THEN [ok |-> FALSE, store |-> Put(store, api_key, kept)]
        ELSE [ok |-> TRUE, store |-> Put(store, api_key, Append(kept, t))]

\* PaymentCollection.Update(id, {"status": status}).
PaymentCollection_Update(store, id, status) ==
    Put(store, id, [id |-> id, status |-> status])

stripe_webhook_glyph(payload, api_key) ==
    LET rl == check_rate_limit_stripe(rate_limit_store, api_key, now)
        event_id == generate_id(uuidCount)
    IN  /\ nreq < MaxHooks
        /\ nreq' = nreq + 1
        /\ api_key # ""
        /\ UNCHANGED <<now, ticks, Auth, Chat, Queue>>
        /\ rate_limit_store' = rl.store
        /\ IF ~rl.ok
           THEN /\ resp' = Reply("stripe_webhook", 429,
                                 "Rate limit exceeded", NoId)
                /\ UNCHANGED <<uuidCount, Webhook>>
           ELSE /\ uuidCount' = event_id
                /\ webhook_logs' = Put(webhook_logs, event_id,
                                       [id |-> event_id, event |-> payload.event,
                                        received_at |-> now])
                /\ payments' =
                     IF payload.event = "payment.succeeded"
                     THEN PaymentCollection_Update(payments, payload.data.id,
                                                   "completed")
                     ELSE IF payload.event = "payment.failed"
                     THEN PaymentCollection_Update(payments, payload.data.id,
                                                   "failed")
                     ELSE payments
                /\ customers' =
                     IF payload.event = "customer.created"
                     THEN Put(customers, payload.data.id, payload.data)
                     ELSE customers
                /\ resp' = Reply("stripe_webhook", 200, "", event_id)

InitWebhookGlyph ==
    /\ now = 0
    /\ ticks = 0
    /\ nreq = 0
    /\ resp = NoResp
    /\ users = Empty
    /\ sessions = Empty
    /\ issued = Empty
    /\ ended = Empty
    /\ th = Empty
    /\ list_id = Empty
    /\ limit = 0
    /\ log = Empty
    /\ connections = <<>>
    /\ ws = Empty
    /\ sent = Empty
    /\ queues = Empty
    /\ proc = Empty
    /\ enqueued = Empty
    /\ handled = <<>>
    /\ \E n \in {RATE_LIMIT_MAX_STRIPE - 1, RATE_LIMIT_MAX_STRIPE} :
          /\ uuidCount = n
          /\ rate_limit_store = Put(Empty, "test-key-1", [i \in 1 .. n |-> 0])
          /\ webhook_logs =
                [i \in 1 .. n |->
                    [id |-> i, event |-> IF i = 1 THEN "payment.failed" ELSE "ping",
                     received_at |-> 0]]
    /\ payments = PaymentCollection_Update(Empty, "p1", "failed")
    /\ customers = Empty

SpecWebhookGlyph ==
    InitWebhookGlyph
       /\ [][\/ \E d \in {RATE_LIMIT_WINDOW - 1, RATE_LIMIT_WINDOW} : Tick(d)
             \/ \E p \in Payloads, k \in {"test-key-1", "other-key"} :
                   stripe_webhook_glyph(p, k)]_vars

\* C33: a stripe webhook request that the limiter denies appends nothing
\* to the webhook log, creates and changes no payment and no customer
\* record, draws no event id, and leaves its key's bucket as it was.
C33_DeniedStripeNoEffect ==
    [][\A p \in Payloads, k \in ApiKeyHeaders :
          (stripe_webhook(p, k)
             /\ ~webhook_check_rate_limit(rate_limit_store, k, now).ok
             /\ verify_api_key(k).status = 200)
          => /\ resp'.status = 429
             /\ UNCHANGED <<webhook_logs, payments, customers, uuidCount>>
             /\ rate_limit_store' = rate_limit_store]_vars

\* A stripe request has just been denied with its key's bucket full, after
\* requests of that key had been admitted, logged and handled.
C33_Witness ==
    /\ resp.op = "stripe_webhook"
    /\ resp.status = 429
    /\ Len(rate_limit_store["test-key-1"]) = RATE_LIMIT
    /\ Len(webhook_logs) >= RATE_LIMIT
    /\ payments # Empty

\* The same for the glyph sample, whose limiter is a dependency of the
\* route.
C33_DeniedStripeNoEffectGlyph ==
    [][\A p \in Payloads, k \in {"test-key-1", "other-key"} :
          (stripe_webhook_glyph(p, k)
             /\ ~check_rate_limit_stripe(rate_limit_store, k, now).ok)
          => /\ resp'.status = 429
             /\ UNCHANGED <<webhook_logs, payments, customers, uuidCount>>
             /\ rate_limit_store' = rate_limit_store]_vars

\* ===================================================================
\* The chat server (03-chat-server.py): ConnectionManager and the chat
\* handler of each websocket.  The handlers are coroutines of one event
\* loop: a step is what one handler executes between two suspensions, and
\* every `await` on a websocket (accept, send_text, receive_text) suspends.
\* ===================================================================
NSockets == 3
MaxTexts == 1
Sockets == 1 .. NSockets

\* list.remove(x): the first occurrence goes.
Remove(list, x) ==
    LET i == CHOOSE j \in 1 .. Len(list) :
                 list[j] = x /\ \A k \in 1 .. j - 1 : list[k] # x
    IN  SubSeq(list, 1, i - 1) \o SubSeq(list, i + 1, Len(list))
Members(list) == {list[i] : i \in DOMAIN list}

\* A handler's frame: where it is suspended (pc), the broadcast it is in
\* (b), how many elements its list iterator has yielded (it) and where it
\* goes when the broadcast returns (after).
Accepting == [pc |-> "accept", b |-> NoId, it |-> 0, after |-> "none"]

\* `for connection in self._connections: await connection.send_text(...)`
\* from iterator position `it` of broadcast b on the list as it is now: the
\* iterator yields list[it] (counting from 0) and the handler is suspended
\* on the send to it, or the list is exhausted and the broadcast returns.
\* Gives the handler's frame and the history.
broadcast(conns, hist, b, it, after) ==
    IF it < Len(conns)
    THEN [frame |-> [pc |-> "send", b |-> b, it |-> it + 1, after |-> after],
          sent  |-> [hist EXCEPT ![b].got = Append(@, conns[it + 1])]]
    ELSE [frame |-> [pc |-> after, b |-> NoId, it |-> 0, after |-> "none"],
          sent  |-> [hist EXCEPT ![b].done = TRUE]]

\* History: broadcast b of `message` by the handler of `by` begins on the
\* list conns; `gone` collects who leaves the list while it runs.
Begin(hist, b, by, message, conns) ==
    Put(hist, b, [by |-> by, message |-> message, start |-> Members(conns),
                  gone |-> {}, got |-> <<>>, done |-> FALSE])
Texted == Cardinality({b \in DOMAIN sent : sent[b].message = "text"})

\* chat: manager.connect returns from accept and appends; the broadcast of
\* "User joined the chat" starts.
connect(websocket) ==
    LET conns == Append(connections, websocket)
        b == Cardinality(DOMAIN sent) + 1
        go == broadcast(conns, Begin(sent, b, websocket, "joined", conns),
                        b, 0, "receive")
    IN  /\ ws[websocket].pc = "accept"
        /\ connections' = conns
        /\ ws' = [ws EXCEPT ![websocket] = go.frame]
        /\ sent' = go.sent
        /\ UNCHANGED <<Service, Webhook, Queue>>

\* A send has returned: the loop of the broadcast takes its next element.
send_text(websocket) ==
    LET f == ws[websocket]
        go == broadcast(connections, sent, f.b, f.it, f.after)
    IN  /\ f.pc = "send"
        /\ ws' = [ws EXCEPT ![websocket] = go.frame]
        /\ sent' = go.sent
        /\ UNCHANGED connections
        /\ UNCHANGED <<Service, Webhook, Queue>>

\* receive_text returns a text: its broadcast starts.
receive_text(websocket) ==
    LET b == Cardinality(DOMAIN sent) + 1
        go == broadcast(connections,
                        Begin(sent, b, websocket, "text", connections),
                        b, 0, "receive")
    IN  /\ ws[websocket].pc = "receive"
        /\ Texted < MaxTexts
        /\ ws' = [ws EXCEPT ![websocket] = go.frame]
        /\ sent' = go.sent
        /\ UNCHANGED connections
        /\ UNCHANGED <<Service, Webhook, Queue>>

\* receive_text raises WebSocketDisconnect: manager.disconnect removes the
\* socket and the broadcast of "User left the chat" starts.
disconnect(websocket) ==
    LET conns == Remove(connections, websocket)
        b == Cardinality(DOMAIN sent) + 1
        left == [x \in DOMAIN sent |->
                    IF sent[x].done THEN sent[x]
                    ELSE [sent[x] EXCEPT !.gone = @ \cup {websocket}]]
        go == broadcast(conns, Begin(left, b, websocket, "left", conns),
                        b, 0, "return")
    IN  /\ ws[websocket].pc = "receive"
        /\ connections' = conns
        /\ ws' = [ws EXCEPT ![websocket] = go.frame]
        /\ sent' = go.sent
        /\ UNCHANGED <<Service, Webhook, Queue>>

InitChat ==
    /\ now = 0
    /\ ticks = 0
    /\ uuidCount = 0
    /\ rate_limit_store = Empty
    /\ nreq = 0
    /\ resp = NoResp
    /\ users = Empty
    /\ sessions = Empty
    /\ issued = Empty
    /\ ended = Empty
    /\ th = Empty
    /\ list_id = Empty
    /\ limit = 0
    /\ log = Empty
    /\ webhook_logs = <<>>
    /\ payments = Empty
    /\ customers = Empty
    /\ queues = Empty
    /\ proc = Empty
    /\ enqueued = Empty
    /\ handled = <<>>
    /\ connections = <<>>
    /\ ws = [s \in Sockets |-> Accepting]
    /\ sent = Empty

NextChat ==
    \/ \E s \in Sockets : connect(s)
    \/ \E s \in Sockets : send_text(s)
    \/ \E s \in Sockets : receive_text(s)
    \/ \E s \in Sockets : disconnect(s)

SpecChat == InitChat /\ [][NextChat]_vars

\* How often broadcast b has sent to connection c.
Times(b, c) == Cardinality({i \in DOMAIN sent[b].got : sent[b].got[i] = c})

\* C34: a broadcast that has returned has sent its message exactly once to
\* every connection that was in the manager's list from its start to its
\* end, whatever connected or disconnected while it was suspended.
C34_BroadcastReachesAll ==
    \A b \in DOMAIN sent :
        sent[b].done =>
            \A c \in sent[b].start \ sent[b].gone : Times(b, c) = 1

\* What holds: no broadcast sends twice to a connection, and one during
\* which no connection left the list reaches every connection it started
\* with, also when others connected meanwhile.
C34_QuietBroadcastReachesAll ==
    \A b \in DOMAIN sent :
        /\ \A c \in Sockets : Times(b, c) <= 1
        /\ (sent[b].done /\ sent[b].gone = {}) =>
              \A c \in sent[b].start : Times(b, c) = 1

\* ===================================================================
\* The queue worker (04-job-queue.py, QueueWorker).  enqueue and process
\* are coroutines of one event loop.  put on an asyncio.Queue without a
\* size never waits; get waits while the queue is empty.  A process call is
\* taken in two steps, up to `await queue.get()` and from it on: the run
\* in which the second follows the first at once is the one the event loop
\* gives when get finds a message.
\* ===================================================================
MaxJobs == 3
NCalls == 3
Calls == 1 .. NCalls
\* The queues registered when the module is loaded, and the names the
\* calls are made with.
Registered_queues == {"email.send", "report.generate"}
QueueNames == Registered_queues \cup {"sms.send"}

\* asyncio.Queue: put_nowait appends on the right of a deque, get_nowait
\* pops on the left.
queue_put(queue, message) == Append(queue, message)
queue_get_Newest(queue) ==
    [message |-> queue[Len(queue)], queue |-> SubSeq(queue, 1, Len(queue) - 1)]
queue_get(queue) == [message |-> Head(queue), queue |-> Tail(queue)]

Idle == [pc |-> "idle", queue_name |-> "", result |-> NoId]
Jobs == Cardinality(UNION {(DOMAIN enqueued[q]) \X {q} : q \in DOMAIN enqueued})

\* enqueue(queue_name, message); the message is named by its number.
enqueue(queue_name) ==
    LET message == Jobs + 1
    IN  /\ Jobs < MaxJobs
        /\ IF queue_name \in DOMAIN queues
           THEN /\ queues' = [queues EXCEPT
                                ![queue_name] = queue_put(@, message)]
                /\ enqueued' = [enqueued EXCEPT
                                  ![queue_name] = Append(@, message)]
           ELSE UNCHANGED <<queues, enqueued>>
        /\ UNCHANGED <<proc, handled>>
        /\ UNCHANGED <<Service, Webhook, Chat>>

\* process(queue_name) up to `await queue.get()`: None without a handler
\* or with an empty queue.
process(call, queue_name) ==
    /\ proc[call].pc = "idle"
    /\ proc' = [proc EXCEPT ![call] =
                  IF queue_name \notin Registered_queues
                     \/ queues[queue_name] = <<>>
                  THEN [pc |-> "returned", queue_name |-> queue_name,
                        result |-> NoId]
                  ELSE [pc |-> "get", queue_name |-> queue_name,
                        result |-> NoId]]
    /\ UNCHANGED <<queues, enqueued, handled>>
    /\ UNCHANGED <<Service, Webhook, Chat>>

\* queue.get() returns a message and the handler is called with it; the
\* handlers have no suspension point.
process_get(call) ==
    LET name == proc[call].queue_name
        got == queue_get(queues[name])
    IN  /\ proc[call].pc = "get"
        /\ queues[name] # <<>>
        /\ queues' = [queues EXCEPT ![name] = got.queue]
        /\ handled' = Append(handled, [queue_name |-> name, call |-> call,
                                       message |-> got.message])
        /\ proc' = [proc EXCEPT ![call] =
                      [pc |-> "returned", queue_name |-> name,
                       result |-> got.message]]
        /\ UNCHANGED enqueued
        /\ UNCHANGED <<Service, Webhook, Chat>>

InitQueue ==
    /\ now = 0
    /\ ticks = 0
    /\ uuidCount = 0
    /\ rate_limit_store = Empty
    /\ nreq = 0
    /\ resp = NoResp
    /\ users = Empty
    /\ sessions = Empty
    /\ issued = Empty
    /\ ended = Empty
    /\ th = Empty
    /\ list_id = Empty
    /\ limit = 0
    /\ log = Empty
    /\ webhook_logs = <<>>
    /\ payments = Empty
    /\ customers = Empty
    /\ connections = <<>>
    /\ ws = Empty
    /\ sent = Empty
    /\ queues = [q \in Registered_queues |-> <<>>]
    /\ proc = [c \in Calls |-> Idle]
    /\ enqueued = [q \in Registered_queues |-> <<>>]
    /\ handled = <<>>

NextQueue ==
    \/ \E q \in QueueNames : enqueue(q)
    \/ \E c \in Calls, q \in QueueNames : process(c, q)
    \/ \E c \in Calls : process_get(c)

SpecQueue == InitQueue /\ [][NextQueue]_vars

\* The messages handed to the handler of a queue, in the order of the
\* handler's invocations.
HandedTo(q) ==
    LET h == SelectSeq(handled, LAMBDA x : x.queue_name = q)
    IN  [i \in DOMAIN h |-> h[i].message]

\* C35: for each registered queue the messages handed to its handler are,
\* in order, the first messages put on it (so they come in enqueue order
\* and none comes twice); no process call hands over two messages and no
\* message is handed over by two calls.
C35_QueueInOrder ==
    /\ \A q \in Registered_queues :
          /\ Len(HandedTo(q)) <= Len(enqueued[q])
          /\ HandedTo(q) = SubSeq(enqueued[q], 1, Len(HandedTo(q)))
    /\ \A i, j \in DOMAIN handled :
          i # j => /\ handled[i].call # handled[j].call
                   /\ handled[i].message # handled[j].message

\* Two messages of one queue have been handed over by two calls in the
\* order they were put, while a third message waits in a queue and a call
\* on an empty or unknown queue has returned None.
C35_Witness ==
    /\ \E q \in Registered_queues :
          /\ Len(HandedTo(q)) = 2
          /\ HandedTo(q)[1] < HandedTo(q)[2]
    /\ \E q \in Registered_queues : queues[q] # <<>>
    /\ \E c \in Calls : proc[c].pc = "returned" /\ proc[c].result = NoId

====
